---- MODULE Spec2Model ----
(***************************************************************************)
(* bob.hpp: the command runner (CmdRunner), the command handle (CmdFuture) *)
(* and the child processes they drive.                                     *)
(*                                                                         *)
(* The driver is one sequential thread (CmdRunner::run and what it calls); *)
(* the children are operating-system processes that run, write to their    *)
(* pseudo-terminal and exit on their own.  The fixed 20 ms sleeps change   *)
(* no state and are not steps.                                             *)
(*                                                                         *)
(* Spec is the life of one CmdRunner: constructed, filled, run, cleared    *)
(* and run again, any number of times.  What a poll reads from the channel *)
(* decides nothing in the runner, so there a poll is its                   *)
(* waitpid(WNOHANG) alone.                                                 *)
(* LiveSpec is that life under fairness, for a runner constructed with an  *)
(* explicit process count >= 1 whose children exit normally.               *)
(*                                                                         *)
(* HandleSpec is Cmd::run() or Cmd::check() on one command: run_async,     *)
(* then await_future polling the handle.  A poll is two system calls,      *)
(* read() until the channel is empty and then waitpid(WNOHANG); the child  *)
(* may write and exit between the two, so the caller takes one step up to  *)
(* the drain and one step from waitpid on.                                 *)
(*                                                                         *)
(* FutureSpec is the CmdFuture that run_async() returned, in the hands of  *)
(* a caller who calls poll(), await() and kill() on it in any order.       *)
(*                                                                         *)
(* RecipeSpec is a Recipe over files that other programs write and remove  *)
(* while the caller asks needs_rebuild() and calls build().  A call of     *)
(* build() is three steps, for the build function is the caller's code and *)
(* takes its time: up to the call of the build function, the build         *)
(* function, and the check of the outputs.                                 *)
(*                                                                         *)
(* BootSpec is go_rebuild_yourself in a program that its user starts: the   *)
(* chain of processes in which each, finding its binary stale, runs the    *)
(* rebuild command and then the binary again, and waits for it.  Other     *)
(* programs write and remove the source, the header and the binary         *)
(* meanwhile.                                                              *)
(*                                                                         *)
(* ToolSpec is the helper functions RebuildConfig::cmd and search_path,    *)
(* called with every argument of a bounded set.                            *)
(*                                                                         *)
(* HangSpec is the runner with two or more slots whose children may run    *)
(* for ever.  ChattySpec is one handle whose poll() is taken read() by     *)
(* read(), with a child that writes between them.  CliSpec is a CliCommand *)
(* to which its program adds flags.                                        *)
(*                                                                         *)
(* Indexes (slot.index, cursor, the loop variable i) are 0-based as in the *)
(* source; sequences are 1-based, so cmds[k] of the source is cmds[k + 1]. *)
(***************************************************************************)
EXTENDS Integers, Sequences, FiniteSets, TLC

\* ------------------------------------------------------------------ bounds
MaxProc == 2
MaxCmds == 3
MaxCtorCmds == 1
MaxOut == 3
MaxPaths == 2
MaxTime == 2
MaxDepth == 2
MaxParts == 4
MaxPathLen == 4
PtyCap == 3
ReadMax == 2
MaxReads == 3
MaxFlags == 3

VARIABLES
    pc,             \* where the caller / CmdRunner::run() stands
    ctor,           \* the constructor call that made the runner
    process_count,  \* CmdRunner::process_count
    slots,          \* CmdRunner::slots
    cmds,           \* CmdRunner::cmds
    exit_codes,     \* CmdRunner::exit_codes
    cursor,         \* CmdRunner::cursor
    i,              \* the loop variable of populate_slots / await_slots
    did_work,       \* local of populate_slots
    all_done,       \* local of await_slots
    children,       \* the processes forked so far, by pid
    ret,            \* value returned by the last run()
    oob,            \* an index outside its vector has been used
    hpc,            \* where the caller of Cmd::run() stands
    hcmd,           \* the Cmd that is run on its own
    hfut,           \* its CmdFuture
    proc,           \* its child process and the child's pseudo-terminal
    echo,           \* what the parent has printed of the child's output
    hret,           \* value returned by Cmd::run()
    hop,            \* the member function the caller called last
    hexit,          \* exit status of the calling process, -1 while it lives
    hres,           \* what the last call on the CmdFuture returned
    files,          \* the file system: a file's modification time, 0 if missing
    recipe,         \* the Recipe: its inputs and outputs
    rpc,            \* where the caller of the Recipe stands
    rret,           \* what the last call on the Recipe returned
    now,            \* the clock that stamps the files written
    prior,          \* what build() did last, "none" once a file changed
    rexit,          \* exit status of the Recipe's process, -1 while it lives
    boot,           \* the processes of a self-rebuild, each started by the last
    tool,           \* the last call of a helper function and what it returned
    drain,          \* one CmdFuture::poll and the child that writes meanwhile
    cli             \* a CliCommand: its flags, and the process that adds them

vars == <<pc, ctor, process_count, slots, cmds, exit_codes, cursor, i,
          did_work, all_done, children, ret, oob,
          hpc, hcmd, hfut, proc, echo, hret, hop, hexit, hres,
          files, recipe, rpc, rret, now, prior, rexit, boot, tool,
          drain, cli>>

runner == <<process_count, slots, cmds, exit_codes, cursor>>

\* The variables of a CmdRunner's life, and those of a single Cmd::run().
pool == <<pc, ctor, runner, i, did_work, all_done, children, ret, oob>>
handle == <<hpc, hcmd, hfut, proc, echo, hret, hop, hexit, hres>>

\* The variables of a Recipe and of the files it names.
incremental == <<files, recipe, rpc, rret, now, prior, rexit, boot>>

\* ------------------------------------------------------------ program data
\* What sysconf(_SC_NPROCESSORS_ONLN) reports: nothing detected, or one
\* processor.
Detected == {0, 1}

\* Exit statuses a child can exit with.
ExitStatuses == {0, 1}

\* Argument vectors (Cmd::parts) by what run_async makes of them: no
\* argument, an empty first argument, a program execvp does not find or may
\* not execute, a program execvp runs.
Parts == {<<>>, <<"">>, <<"nosuch">>, <<"prog">>}

\* The argument vectors of the commands pushed to a runner.
PushParts == {<<>>, <<"prog">>}

\* Cmd as default-constructed (parts, capture_output, silent, output_str).
DefaultCmd == [parts |-> <<>>, capture_output |-> FALSE, silent |-> FALSE,
               output_str |-> <<>>]

\* A Cmd made from a list of arguments, the flags as default-constructed.
Cmd(parts) == [DefaultCmd EXCEPT !.parts = parts]

\* exit(1) of _panic; EXIT_FAILURE of the child that could not chdir or exec.
PanicStatus == 1
EXIT_FAILURE == 1

\* Mutant of NoCommand: the first argument is not looked at.
NoCommand_unchecked_first(cmd) == cmd.parts = <<>>

\* Cmd::run_async: `parts.empty() || parts[0].empty()`.
NoCommand(cmd) == cmd.parts = <<>> \/ cmd.parts[1] = ""

\* Cmd::run_async, child side: execvp replaces the child by the program.
execvp(cmd) == cmd.parts[1] = "prog"

\* Mutant of check_panics: the exit code is ignored.
check_panics_never(exit_code) == FALSE

\* Cmd::check: `if (exit_code != 0) PANIC(...)`.
check_panics(exit_code) == exit_code # 0

\* CmdFuture::CmdFuture(): cpid(-1), done(false), exit_code(-1).
NewFuture == [cpid |-> -1, done |-> FALSE, exit_code |-> -1, output_fd |-> -1,
              silent |-> FALSE]

\* CmdRunnerSlot(): index{-1}.
NewSlot == [fut |-> NewFuture, index |-> -1]

\* CmdRunner::init_slots over a vector of n default slots.
init_slots(n) ==
    [k \in 1..n |-> [NewSlot EXCEPT !.fut.done = TRUE, !.fut.output_fd = -1,
                                    !.index = -1]]

\* The process forkpty() creates for cmds[index].
NewChild(index) ==
    [cmd |-> index, state |-> "running", status |-> -1,
     reaped |-> FALSE]

\* Cmd::run_async, parent side: the handle of the child with the given pid.
run_async(cmd, pid) ==
    [cpid |-> pid, done |-> FALSE, exit_code |-> -1, output_fd |-> pid,
     silent |-> cmd.silent]

\* The pseudo-terminals the runner holds open: forkpty opens one for each
\* child, its descriptor is kept in the handle's output_fd (the child's pid
\* here), and neither poll, nor the runner when it takes a slot's handle for
\* the next command, nor any other statement closes a descriptor.
open_fds(ch) == {run_async(DefaultCmd, p).output_fd : p \in DOMAIN ch}

\* vector::resize(n, v).
Resize(s, n, v) == [k \in 1..n |-> IF k <= Len(s) THEN s[k] ELSE v]

\* read_fd: reads until the non-blocking channel is empty.
read_fd(pty) == [got_data |-> pty # <<>>, data |-> pty]

\* CmdFuture::poll up to the waitpid call, for a handle that is not done:
\* the output_str after the drain.
poll_output(output_str, pty) ==
    IF read_fd(pty).got_data THEN output_str \o read_fd(pty).data ELSE output_str

\* The files a Recipe can name, and the lists of at most MaxPaths of them
\* that name no file twice.
Files == {"a", "b", "c"}
Paths ==
    UNION {{paths \in [1..n -> Files] :
               \A a, b \in 1..n : a # b => paths[a] # paths[b]} :
           n \in 0..MaxPaths}

\* How a call ends: it returns val, or an exception leaves it (threw).
Value(val) == [threw |-> FALSE, val |-> val]
Threw == [threw |-> TRUE, val |-> FALSE]

\* Mutant of file_needs_rebuild: the comparison is the wrong way round.
file_needs_rebuild_swapped(fs, input, output) ==
    IF fs[output] = 0 THEN Value(TRUE)
    ELSE IF fs[input] = 0 THEN Threw
    ELSE Value(fs[input] < fs[output])

\* Mutant of file_needs_rebuild: an output as old as the input is rebuilt.
file_needs_rebuild_equal(fs, input, output) ==
    IF fs[output] = 0 THEN Value(TRUE)
    ELSE IF fs[input] = 0 THEN Threw
    ELSE Value(fs[output] <= fs[input])

\* file_needs_rebuild on the file system fs; fs::last_write_time throws for
\* a file that does not exist.
file_needs_rebuild(fs, input, output) ==
    IF fs[output] = 0 THEN Value(TRUE)
    ELSE IF fs[input] = 0 THEN Threw
    ELSE Value(fs[output] < fs[input])

\* Recipe::needs_rebuild: the two nested loops, from inputs[a] and outputs[b]
\* on (1-based), with the early return.
RECURSIVE needs_rebuild_from(_, _, _, _)
needs_rebuild_from(fs, r, a, b) ==
    IF a > Len(r.inputs) THEN Value(FALSE)
    ELSE IF b > Len(r.outputs) THEN needs_rebuild_from(fs, r, a + 1, 1)
    ELSE LET res == file_needs_rebuild(fs, r.inputs[a], r.outputs[b])
         IN  IF res.threw \/ res.val THEN res
             ELSE needs_rebuild_from(fs, r, a, b + 1)

\* Mutant of needs_rebuild: the inputs are compared with the first output
\* only.
needs_rebuild_first(fs, r) ==
    IF r.outputs = <<>> THEN Value(FALSE)
    ELSE needs_rebuild_from(fs, [r EXCEPT !.outputs = <<r.outputs[1]>>], 1, 1)

\* Recipe::needs_rebuild.
needs_rebuild(fs, r) == needs_rebuild_from(fs, r, 1, 1)

\* The placeholders of RebuildConfig, and the template BOB_REBUILD_CMD.
PROGRAM == "_PROGRAM_"
SOURCE == "_SOURCE_"
BOB_REBUILD_CMD == <<"g++", "-o", "_PROGRAM_", "_SOURCE_">>

\* RebuildConfig::cmd, the loop from parts[k] on (1-based).
RECURSIVE cmd_from(_, _, _, _, _)
cmd_from(acc, parts, source, program, k) ==
    IF k > Len(parts) THEN acc
    ELSE IF parts[k] = PROGRAM
    THEN cmd_from(Append(acc, program), parts, source, program, k + 1)
    ELSE IF parts[k] = SOURCE
    THEN cmd_from(Append(acc, source), parts, source, program, k + 1)
    ELSE cmd_from(Append(acc, parts[k]), parts, source, program, k + 1)

\* Mutant of cmd: the source placeholder is not looked for.
cmd_program_only(parts, source, program) ==
    cmd_from(<<>>, parts, SOURCE, program, 1)

\* RebuildConfig::cmd(source, program) of a RebuildConfig with these parts;
\* the parts of the Cmd it returns.
cmd(parts, source, program) == cmd_from(<<>>, parts, source, program, 1)

\* Mutant of any_missing: no path is ever found missing.
any_missing_never(fs, paths) == FALSE

\* Recipe::build, either of its two checks: any_missing after the loop over
\* fs::exists.
any_missing(fs, paths) == \E k \in DOMAIN paths : fs[paths[k]] = 0

\* Mutants of any_waiting: the last command is never taken; no command is
\* taken once an exit code other than 0 has been recorded.
any_waiting_short == cursor + 1 < Len(cmds)
any_waiting_failfast ==
    cursor < Len(cmds) /\ \A k \in DOMAIN exit_codes : exit_codes[k] \in {0, -1}

\* CmdRunner::any_waiting.
any_waiting == cursor < Len(cmds)

\* Mutant of set_exit_code: the code is filed under the command taken last.
set_exit_code_last(codes, slot) ==
    IF slot.index < 0 THEN codes
    ELSE [codes EXCEPT ![cursor] = slot.fut.exit_code]

\* Mutant of set_exit_code: nothing is written.
set_exit_code_never(codes, slot) == codes

\* CmdRunner::set_exit_code, for a slot whose index is inside exit_codes.
set_exit_code(codes, slot) ==
    IF slot.index < 0 THEN codes
    ELSE [codes EXCEPT ![slot.index + 1] = slot.fut.exit_code]

\* Mutant of take_cursor: the cursor is not advanced.
take_cursor_stuck == [index |-> cursor, cursor |-> cursor]

\* Mutants of take_cursor: the cursor skips a command; the command before
\* the cursor is taken again.
take_cursor_skip == [index |-> cursor, cursor |-> cursor + 2]
take_cursor_rebind ==
    [index |-> IF cursor > 0 THEN cursor - 1 ELSE 0, cursor |-> cursor + 1]

\* populate_slots: `size_t index = cursor++;`.
take_cursor == [index |-> cursor, cursor |-> cursor + 1]

\* Mutants of slot_busy: the `continue` is missing; it is always taken.
slot_busy_never(fut_done) == FALSE
slot_busy_always(fut_done) == TRUE

\* Mutant of slot_busy: the test is inverted.
slot_busy_inverted(fut_done) == fut_done

\* populate_slots: `if (!fut_done) continue;`.
slot_busy(fut_done) == ~fut_done

\* Mutant of any_failed_from: the loop returns on its first element.
any_failed_first(codes, k) == k <= Len(codes) /\ codes[k] # 0

\* CmdRunner::any_failed: the scan with its early return.
RECURSIVE any_failed_from(_, _)
any_failed_from(codes, k) ==
    IF k > Len(codes) THEN FALSE
    ELSE IF codes[k] # 0 THEN TRUE
    ELSE any_failed_from(codes, k + 1)

any_failed == any_failed_from(exit_codes, 1)

\* CmdRunner::all_succeded.
all_succeded == ~any_failed

\* read(fd, buf, sizeof(buf) - 1) on the non-blocking channel that holds
\* `pending` bytes: the number of bytes taken, or -1 (EAGAIN; EIO once the
\* child is gone) when it holds none.
read(pending) ==
    IF pending = 0 THEN -1
    ELSE IF pending < ReadMax THEN pending ELSE ReadMax

\* '\0', the short_name of a CliFlag that has none.
NUL == "nul"

\* The names a caller gives its flags.
ShortNames == {"a", "b"}
LongNames == {"aa", "bb"}

\* The constructors of CliFlag: (long_name, type), (short_name, type) and
\* (short_name, long_name, type); a name not given keeps its default.
CliFlagLong(long_name) == [short_name |-> NUL, long_name |-> long_name]
CliFlagShort(short_name) == [short_name |-> short_name, long_name |-> ""]
CliFlag(short_name, long_name) ==
    [short_name |-> short_name, long_name |-> long_name]

\* CliCommand::find_short and find_long: a flag was found (the pointer
\* returned is not null).
find_short(flags, name) == \E k \in DOMAIN flags : flags[k].short_name = name
find_long(flags, name) == \E k \in DOMAIN flags : flags[k].long_name = name

\* --------------------------------------------------------------- the state
Init ==
    /\ pc = "start"
    /\ ctor = [kind |-> "none", n |-> 0]
    /\ process_count = 0
    /\ slots = <<>>
    /\ cmds = <<>>
    /\ exit_codes = <<>>
    /\ cursor = 0
    /\ i = 0
    /\ did_work = FALSE
    /\ all_done = FALSE
    /\ children = <<>>
    /\ ret = TRUE
    /\ oob = FALSE
    /\ hpc = "start"
    /\ hcmd = DefaultCmd
    /\ hfut = NewFuture
    /\ proc = [state |-> "none", status |-> -1, reaped |-> FALSE, wrote |-> 0,
               pty |-> <<>>, execd |-> FALSE, reused |-> "no"]
    /\ echo = <<>>
    /\ hret = -1
    /\ hop = "none"
    /\ hexit = -1
    /\ hres = [op |-> "none", val |-> FALSE, code |-> 0, sent |-> "none"]
    /\ files = [f \in Files |-> 0]
    /\ recipe = [inputs |-> <<>>, outputs |-> <<>>]
    /\ rpc = "start"
    /\ rret = [op |-> "none", res |-> Value(FALSE)]
    /\ now = 1
    /\ prior = "none"
    /\ rexit = -1
    /\ boot = [procs |-> <<>>, top |-> 0]
    /\ tool = [op |-> "none", parts |-> <<>>, source |-> "", program |-> "",
               cmd |-> <<>>, path_env |-> <<>>, holds |-> {}, ret |-> <<>>]
    /\ drain = [pc |-> "start", pending |-> 0, reads |-> 0, got_data |-> FALSE,
                child |-> "none", done |-> FALSE, ret |-> "none"]
    /\ cli = [flags |-> <<>>, op |-> "none", last |-> [short_name |-> "nul",
                                                       long_name |-> ""],
              exit |-> -1]

\* ------------------------------------------------------------ constructors
\* CmdRunner(size_t process_count): the assert ends the process when it is 0.
CtorCount(n) ==
    /\ pc = "start"
    /\ ctor' = [kind |-> "count", n |-> n]
    /\ process_count' = n
    /\ slots' = init_slots(n)
    /\ pc' = IF n > 0 THEN "idle" ELSE "aborted"
    /\ UNCHANGED <<cmds, exit_codes, cursor, i, did_work, all_done, children,
                   ret, oob>>
    /\ UNCHANGED <<handle, incremental, tool, drain, cli>>

\* CmdRunner(vector<Cmd> cmds, size_t process_count): the slots are allocated
\* from the argument, then a process_count of 0 becomes 1.
CtorCmdsCount(k, n) ==
    /\ pc = "start"
    /\ ctor' = [kind |-> "cmds_count", n |-> n]
    /\ process_count' = IF n = 0 THEN 1 ELSE n
    /\ slots' = init_slots(n)
    /\ cmds' = [x \in 1..k |-> Cmd(<<"prog">>)]
    /\ pc' = "idle"
    /\ UNCHANGED <<exit_codes, cursor, i, did_work, all_done, children,
                   ret, oob>>
    /\ UNCHANGED <<handle, incremental, tool, drain, cli>>

\* CmdRunner() and CmdRunner(vector<Cmd> cmds): n is what
\* sysconf(_SC_NPROCESSORS_ONLN) reports.
CtorDetect(k, n) ==
    /\ pc = "start"
    /\ ctor' = [kind |-> IF k = 0 THEN "default" ELSE "cmds", n |-> n]
    /\ process_count' = IF n = 0 THEN 1 ELSE n
    /\ slots' = init_slots(n)
    /\ cmds' = [x \in 1..k |-> Cmd(<<"prog">>)]
    /\ pc' = "idle"
    /\ UNCHANGED <<exit_codes, cursor, i, did_work, all_done, children,
                   ret, oob>>
    /\ UNCHANGED <<handle, incremental, tool, drain, cli>>

\* ------------------------------------------------- push, clear, run (entry)
\* The caller holds a constructed runner and no run() is in progress; pc is
\* "returned" from the return of run() to the caller's next call.
AtCaller == pc \in {"idle", "returned"}

\* CmdRunner::push of a Cmd made from the given arguments.
push(parts) ==
    /\ AtCaller
    /\ Len(cmds) < MaxCmds
    /\ cmds' = Append(cmds, [Cmd(parts) EXCEPT !.silent = TRUE])
    /\ pc' = "idle"
    /\ UNCHANGED <<ctor, process_count, slots, exit_codes, cursor, i,
                   did_work, all_done, children, ret, oob>>
    /\ UNCHANGED <<handle, incremental, tool, drain, cli>>

\* CmdRunner::clear.
clear ==
    /\ AtCaller
    /\ cmds # <<>> \/ exit_codes # <<>>
    /\ cmds' = <<>>
    /\ exit_codes' = <<>>
    /\ pc' = "idle"
    /\ UNCHANGED <<ctor, process_count, slots, cursor, i, did_work,
                   all_done, children, ret, oob>>
    /\ UNCHANGED <<handle, incremental, tool, drain, cli>>

\* CmdRunner::run up to its first populate_slots() call.  The children of an
\* earlier run have all been reaped: the process table holds none of them.
run ==
    /\ AtCaller
    /\ exit_codes' = Resize(exit_codes, Len(cmds), -1)
    /\ cursor' = 0
    /\ i' = 0
    /\ did_work' = FALSE
    /\ pc' = "populate"
    /\ children' = <<>>
    /\ UNCHANGED <<ctor, process_count, slots, cmds, all_done, ret, oob>>
    /\ UNCHANGED <<handle, incremental, tool, drain, cli>>

\* ---------------------------------------------------------- populate_slots
\* `continue`: on to the next slot.
NextSlot(back) ==
    /\ i' = i + 1
    /\ pc' = back

\* populate_slots from "Slot is ready!" on, for slot k (1-based) whose handle
\* is f, the process table being ch: set_exit_code, then the next command is
\* started in the slot if one is waiting; run_async ends the process when
\* that command has no command to run.  An index outside exit_codes (oob)
\* writes outside the vector and changes no entry of it.
SlotReady(k, f, ch) ==
    LET slot == [slots[k] EXCEPT !.fut = f]
        inside == slot.index < Len(exit_codes)
    IN  /\ exit_codes' = IF inside THEN set_exit_code(exit_codes, slot)
                         ELSE exit_codes
        /\ CASE ~any_waiting ->
                  /\ slots' = [slots EXCEPT ![k] = slot]
                  /\ children' = ch
                  /\ NextSlot("populate")
                  /\ UNCHANGED <<cursor, did_work>>
             [] any_waiting /\ NoCommand(cmds[take_cursor.index + 1]) ->
                  /\ cursor' = take_cursor.cursor
                  /\ slots' = [slots EXCEPT ![k] = slot]
                  /\ children' = ch
                  /\ pc' = "aborted"
                  /\ UNCHANGED <<i, did_work>>
             [] OTHER ->
                  /\ cursor' = take_cursor.cursor
                  /\ children' = Append(ch, NewChild(take_cursor.index))
                  /\ slots' = [slots EXCEPT ![k] =
                                 [fut |-> run_async(cmds[take_cursor.index + 1],
                                                    Len(ch) + 1),
                                  index |-> take_cursor.index]]
                  /\ did_work' = TRUE
                  /\ NextSlot("populate")

\* slots[i] with i < process_count but no such slot: the vector is empty, the
\* reference is null and the read of slot.index ends the process.
PopulateCrash ==
    /\ pc = "populate"
    /\ i < process_count
    /\ i >= Len(slots)
    /\ pc' = "aborted"
    /\ oob' = TRUE
    /\ UNCHANGED <<ctor, runner, i, did_work, all_done, children, ret>>
    /\ UNCHANGED <<handle, incremental, tool, drain, cli>>

\* The slot still holds the index of an earlier batch, and cmds has no such
\* element: cmds[slot.index] and exit_codes[slot.index] are outside their
\* vectors.  The handle is done, so poll returns at once and touches nothing;
\* the write lands in the storage the vector kept (no visible effect), or a
\* checked operator[] ends the process.
PopulateStale ==
    /\ pc = "populate"
    /\ i < process_count
    /\ i < Len(slots)
    /\ slots[i + 1].index >= Len(cmds)
    /\ slots[i + 1].fut.done
    /\ oob' = TRUE
    /\ \/ /\ pc' = "aborted"
          /\ UNCHANGED <<runner, i, did_work, children>>
       \/ SlotReady(i + 1, slots[i + 1].fut, children)
    /\ UNCHANGED <<ctor, process_count, cmds, all_done, ret>>
    /\ UNCHANGED <<handle, incremental, tool, drain, cli>>

\* The slot is empty, or its handle is already done (poll returns true at
\* once, reading nothing).
PopulateReady ==
    /\ pc = "populate"
    /\ i < process_count
    /\ i < Len(slots)
    /\ LET slot == slots[i + 1] IN
        /\ slot.index < Len(cmds)
        /\ slot.index < 0 \/ slot.fut.done
        /\ IF slot.index >= 0 /\ slot_busy(slot.fut.done)
           THEN NextSlot("populate") /\ UNCHANGED <<runner, did_work, children>>
           ELSE SlotReady(i + 1, slot.fut, children)
    /\ UNCHANGED <<ctor, process_count, cmds, all_done, ret, oob>>
    /\ UNCHANGED <<handle, incremental, tool, drain, cli>>

\* Mutant of WIFEXITED: a child killed by a signal passes for one that exited.
WIFEXITED_always(child) == TRUE

\* WIFEXITED(status) for the status waitpid returned of a terminated child.
WIFEXITED(child) == child.state = "exited"

\* Mutant of poll_done: the exit status is not stored.
poll_done_no_code(fut, child) == [fut EXCEPT !.done = TRUE]

\* CmdFuture::poll from waitpid on: the handle after the call, for a child
\* that has terminated.
poll_done(fut, child) ==
    [fut EXCEPT !.done = TRUE,
                !.exit_code = IF WIFEXITED(child) THEN child.status ELSE @]

\* waitpid(cpid, WNOHANG) reaps a terminated child.
Reap(pid) == [children EXCEPT ![pid].reaped = TRUE]

\* populate_slots from the waitpid of the poll on: the child is still running
\* (continue), was killed by a signal (PANIC), or has exited (slot is ready).
PopulateWait ==
    /\ pc = "populate"
    /\ i < process_count
    /\ i < Len(slots)
    /\ slots[i + 1].index >= 0
    /\ slots[i + 1].index < Len(cmds)
    /\ ~slots[i + 1].fut.done
    /\ LET slot == slots[i + 1]
           child == children[slot.fut.cpid]
           fut_done == child.state # "running"
       IN  CASE fut_done /\ ~WIFEXITED(child) ->
                  /\ pc' = "aborted"
                  /\ children' = Reap(slot.fut.cpid)
                  /\ slots' = [slots EXCEPT ![i + 1].fut.done = TRUE]
                  /\ UNCHANGED <<exit_codes, cursor, i, did_work>>
             [] ~(fut_done /\ ~WIFEXITED(child)) /\ slot_busy(fut_done) ->
                  /\ NextSlot("populate")
                  /\ UNCHANGED <<slots, exit_codes, cursor, did_work, children>>
             [] OTHER ->
                  IF fut_done
                  THEN SlotReady(i + 1, poll_done(slot.fut, child),
                                 Reap(slot.fut.cpid))
                  ELSE SlotReady(i + 1, slot.fut, children)
    /\ UNCHANGED <<ctor, process_count, cmds, all_done, ret, oob>>
    /\ UNCHANGED <<handle, incremental, tool, drain, cli>>

\* populate_slots returns to run(): `while (any_waiting())` calls it again,
\* and the loop's exit leads to await_slots().
PopulateReturn ==
    /\ pc = "populate"
    /\ i >= process_count
    /\ i' = 0
    /\ did_work' = FALSE
    /\ IF any_waiting
       THEN pc' = "populate" /\ UNCHANGED all_done
       ELSE pc' = "await" /\ all_done' = TRUE
    /\ UNCHANGED <<ctor, runner, children, ret, oob>>
    /\ UNCHANGED <<handle, incremental, tool, drain, cli>>

\* -------------------------------------------------------------- await_slots
\* `if (slot.index < 0) continue;`
AwaitSkip ==
    /\ pc = "await"
    /\ i < Len(slots)
    /\ slots[i + 1].index < 0
    /\ NextSlot("await")
    /\ UNCHANGED <<ctor, runner, did_work, all_done, children, ret, oob>>
    /\ UNCHANGED <<handle, incremental, tool, drain, cli>>

\* A slot left with the index of an earlier batch that cmds does not have
\* (see PopulateStale): poll returns true at once, set_exit_code writes
\* outside exit_codes.
AwaitStale ==
    /\ pc = "await"
    /\ i < Len(slots)
    /\ slots[i + 1].index >= Len(cmds)
    /\ slots[i + 1].fut.done
    /\ oob' = TRUE
    /\ \/ pc' = "aborted" /\ UNCHANGED i
       \/ NextSlot("await")
    /\ UNCHANGED <<ctor, runner, did_work, all_done, children, ret>>
    /\ UNCHANGED <<handle, incremental, tool, drain, cli>>

\* The handle is already done: poll returns true, the exit code is set again.
AwaitDone ==
    /\ pc = "await"
    /\ i < Len(slots)
    /\ LET slot == slots[i + 1] IN
        /\ slot.index >= 0
        /\ slot.index < Len(cmds)
        /\ slot.fut.done
        /\ exit_codes' = set_exit_code(exit_codes, slot)
    /\ NextSlot("await")
    /\ UNCHANGED <<ctor, process_count, slots, cmds, cursor, did_work, all_done,
                   children, ret, oob>>
    /\ UNCHANGED <<handle, incremental, tool, drain, cli>>

\* await_slots from the waitpid of the poll on.
AwaitWait ==
    /\ pc = "await"
    /\ i < Len(slots)
    /\ slots[i + 1].index >= 0
    /\ slots[i + 1].index < Len(cmds)
    /\ ~slots[i + 1].fut.done
    /\ LET slot == slots[i + 1]
           child == children[slot.fut.cpid]
           done == child.state # "running"
           after == [slot EXCEPT !.fut = poll_done(slot.fut, child)]
       IN  CASE done /\ ~WIFEXITED(child) ->
                  /\ pc' = "aborted"
                  /\ children' = Reap(slot.fut.cpid)
                  /\ slots' = [slots EXCEPT ![i + 1].fut.done = TRUE]
                  /\ UNCHANGED <<exit_codes, i, all_done>>
             [] done /\ WIFEXITED(child) ->
                  /\ children' = Reap(slot.fut.cpid)
                  /\ slots' = [slots EXCEPT ![i + 1] = after]
                  /\ exit_codes' = set_exit_code(exit_codes, after)
                  /\ all_done' = (all_done /\ done)
                  /\ NextSlot("await")
             [] OTHER ->
                  /\ all_done' = (all_done /\ done)
                  /\ NextSlot("await")
                  /\ UNCHANGED <<slots, exit_codes, children>>
    /\ UNCHANGED <<ctor, process_count, cmds, cursor, did_work, ret, oob>>
    /\ UNCHANGED <<handle, incremental, tool, drain, cli>>

\* The end of one round over the slots: await_slots returns when all_done,
\* and run() returns !any_failed(); otherwise the next round starts.
AwaitRound ==
    /\ pc = "await"
    /\ i >= Len(slots)
    /\ IF all_done
       THEN /\ pc' = "returned"
            /\ ret' = ~any_failed
            /\ i' = 0
            /\ UNCHANGED all_done
       ELSE /\ all_done' = TRUE
            /\ i' = 0
            /\ UNCHANGED <<pc, ret>>
    /\ UNCHANGED <<ctor, runner, did_work, children, oob>>
    /\ UNCHANGED <<handle, incremental, tool, drain, cli>>

\* ------------------------------------------------------------- the children
Running(p) ==
    /\ p \in DOMAIN children
    /\ pc # "aborted"
    /\ children[p].state = "running"

\* The child exits with status st.
ChildExit(p, st) ==
    /\ Running(p)
    /\ children' = [children EXCEPT ![p].state = "exited", ![p].status = st]
    /\ UNCHANGED <<pc, ctor, runner, i, did_work, all_done, ret, oob>>
    /\ UNCHANGED <<handle, incremental, tool, drain, cli>>

\* The child is killed by a signal.
ChildSignal(p) ==
    /\ Running(p)
    /\ children' = [children EXCEPT ![p].state = "signaled"]
    /\ UNCHANGED <<pc, ctor, runner, i, did_work, all_done, ret, oob>>
    /\ UNCHANGED <<handle, incremental, tool, drain, cli>>

\* ------------------------------------------------------- the specification
Construct ==
    \E n \in 0..MaxProc :
        \/ CtorCount(n)
        \/ \E k \in 0..MaxCtorCmds : CtorCmdsCount(k, n)
        \/ \E k \in 0..MaxCtorCmds : n \in Detected /\ CtorDetect(k, n)

Driver ==
    \/ PopulateCrash \/ PopulateStale \/ PopulateReady
    \/ PopulateWait \/ PopulateReturn
    \/ AwaitSkip \/ AwaitStale \/ AwaitDone \/ AwaitWait
    \/ AwaitRound

Child ==
    \E p \in DOMAIN children :
        \/ \E st \in ExitStatuses : ChildExit(p, st)
        \/ ChildSignal(p)

Next ==
    \/ Construct
    \/ \E parts \in PushParts : push(parts)
    \/ clear \/ run \/ Driver \/ Child

Spec == Init /\ [][Next]_vars

\* The runner under the hypotheses of termination: it is constructed with an
\* explicit process count >= 1 and its children exit normally.  The driver is
\* a sequential program that keeps executing, and its sleeps are finite
\* (weak fairness of its steps); a running child does exit (weak fairness of
\* each child's exit).
LiveDriver ==
    \/ PopulateStale \/ PopulateReady \/ PopulateWait \/ PopulateReturn
    \/ AwaitSkip \/ AwaitStale \/ AwaitDone \/ AwaitWait \/ AwaitRound

LiveNext ==
    \/ \E n \in 1..MaxProc : CtorCount(n)
    \/ push(<<"prog">>) \/ clear \/ run
    \/ LiveDriver
    \/ \E p \in DOMAIN children : \E st \in ExitStatuses : ChildExit(p, st)

LiveSpec ==
    /\ Init
    /\ [][LiveNext]_vars
    /\ WF_vars(LiveDriver)
    /\ \A p \in 1..MaxCmds : WF_vars(\E st \in ExitStatuses : ChildExit(p, st))

\* A runner constructed with an explicit process count >= 2, with children
\* that exit with 0 if they exit: any of them may run for ever.  The driver
\* keeps executing.
HangNext ==
    \/ \E n \in 2..MaxProc : CtorCount(n)
    \/ push(<<"prog">>) \/ clear \/ run
    \/ LiveDriver
    \/ \E p \in DOMAIN children : ChildExit(p, 0)

HangSpec == Init /\ [][HangNext]_vars /\ WF_vars(LiveDriver)

\* ------------------------------- Cmd::run() and Cmd::check() on one command
\* The caller makes a Cmd from its arguments and the two flags and calls
\* run(), check() or run_async() (op).  run_async ends the process for a Cmd
\* without a command and when forkpty fails (forked = FALSE); otherwise the
\* child exists; in run() and check() await_future then polls the handle
\* until it is done, and run_async() returns the handle to the caller.
HandleStart(op, parts, capture, silent, forked) ==
    /\ hpc = "start"
    /\ hop' = op
    /\ hcmd' = [Cmd(parts) EXCEPT !.capture_output = capture,
                                  !.silent = silent]
    /\ IF NoCommand(hcmd') \/ ~forked
       THEN /\ hpc' = "aborted"
            /\ hexit' = PanicStatus
            /\ UNCHANGED <<hfut, proc>>
       ELSE /\ hfut' = run_async(hcmd', 1)
            /\ proc' = [proc EXCEPT !.state = "running",
                                    !.execd = execvp(hcmd')]
            /\ hpc' = IF op = "run_async" THEN "caller" ELSE "poll"
            /\ UNCHANGED hexit
    /\ UNCHANGED <<echo, hret, hres>>
    /\ UNCHANGED <<pool, incremental, tool, drain, cli>>

\* Cmd::poll_future -> CmdFuture::poll(&output_str) up to the waitpid call:
\* read_fd empties the channel; what it got is echoed unless silent, and
\* appended to output_str.
HandlePollRead ==
    /\ hpc = "poll"
    /\ ~hfut.done
    /\ echo' = IF read_fd(proc.pty).got_data /\ ~hfut.silent
               THEN echo \o read_fd(proc.pty).data ELSE echo
    /\ hcmd' = [hcmd EXCEPT !.output_str = poll_output(@, proc.pty)]
    /\ proc' = [proc EXCEPT !.pty = <<>>]
    /\ hpc' = "poll_wait"
    /\ UNCHANGED <<hfut, hret, hop, hexit, hres>>
    /\ UNCHANGED <<pool, incremental, tool, drain, cli>>

\* CmdFuture::poll from waitpid on, and the loop of await_future around it:
\* the child still runs (poll again), was killed by a signal (PANIC), or has
\* exited (done; await_future returns the exit code, and so does run()).
HandlePollWait ==
    /\ hpc = "poll_wait"
    /\ CASE proc.state # "running" /\ ~WIFEXITED(proc) ->
              /\ hpc' = "aborted"
              /\ hexit' = PanicStatus
              /\ hfut' = [hfut EXCEPT !.done = TRUE]
              /\ proc' = [proc EXCEPT !.reaped = TRUE]
              /\ UNCHANGED hret
         [] proc.state # "running" /\ WIFEXITED(proc) ->
              /\ hpc' = "returned"
              /\ hfut' = poll_done(hfut, proc)
              /\ proc' = [proc EXCEPT !.reaped = TRUE]
              /\ hret' = hfut'.exit_code
              /\ UNCHANGED hexit
         [] OTHER ->
              /\ hpc' = "poll"
              /\ UNCHANGED <<hfut, proc, hret, hexit>>
    /\ UNCHANGED <<hcmd, echo, hop, hres>>
    /\ UNCHANGED <<pool, incremental, tool, drain, cli>>

\* Cmd::check after its run() has returned: PANIC unless the exit code is 0.
CheckReturn ==
    /\ hpc = "returned"
    /\ hop = "check"
    /\ IF check_panics(hret)
       THEN hpc' = "aborted" /\ hexit' = PanicStatus
       ELSE hpc' = "checked" /\ UNCHANGED hexit
    /\ UNCHANGED <<hcmd, hfut, proc, echo, hret, hop, hres>>
    /\ UNCHANGED <<pool, incremental, tool, drain, cli>>

ProcRunning == hpc \notin {"aborted"} /\ proc.state = "running"

\* The child writes its next byte to its pseudo-terminal.
ProcWrite ==
    /\ ProcRunning
    /\ proc.wrote < MaxOut
    /\ proc' = [proc EXCEPT !.wrote = @ + 1, !.pty = Append(@, proc.wrote + 1)]
    /\ UNCHANGED <<hpc, hcmd, hfut, echo, hret, hop, hexit, hres>>
    /\ UNCHANGED <<pool, incremental, tool, drain, cli>>

\* The child exits with status st; a child that could not exec the program
\* exits with EXIT_FAILURE.
ProcExit(st) ==
    /\ ProcRunning
    /\ proc.execd \/ st = EXIT_FAILURE
    /\ proc' = [proc EXCEPT !.state = "exited", !.status = st]
    /\ UNCHANGED <<hpc, hcmd, hfut, echo, hret, hop, hexit, hres>>
    /\ UNCHANGED <<pool, incremental, tool, drain, cli>>

\* The child is killed by a signal.
ProcSignal ==
    /\ ProcRunning
    /\ proc' = [proc EXCEPT !.state = "signaled"]
    /\ UNCHANGED <<hpc, hcmd, hfut, echo, hret, hop, hexit, hres>>
    /\ UNCHANGED <<pool, incremental, tool, drain, cli>>

HandleNext ==
    \/ \E op \in {"run", "check"}, parts \in Parts,
          capture \in BOOLEAN, silent \in BOOLEAN, forked \in BOOLEAN :
            HandleStart(op, parts, capture, silent, forked)
    \/ HandlePollRead
    \/ HandlePollWait
    \/ CheckReturn
    \/ ProcWrite
    \/ \E st \in ExitStatuses : ProcExit(st)
    \/ ProcSignal

HandleSpec == Init /\ [][HandleNext]_vars

\* --------------------------------------- a CmdFuture in the caller's hands
\* The caller holds the handle run_async() returned and calls poll(), await()
\* and kill() on it in any order, any number of times.  A call is entered
\* (FutureCall) and then executed.  Here a poll is one step: what is written
\* between its drain and its waitpid matters to the output alone.

\* What a call returned: the bool of poll() and kill() (val), the int of
\* await() (code), and the process kill() signalled, if any.
Returned(op, val, sent) ==
    [op |-> op,
     val |-> IF op = "await" THEN TRUE ELSE val,
     code |-> IF op = "await" THEN val ELSE 0,
     sent |-> sent]

\* The caller calls poll(), await() or kill() on its handle.
FutureCall(op) ==
    /\ hpc = "caller"
    /\ hop' = op
    /\ hpc' = op
    /\ UNCHANGED <<hcmd, hfut, proc, echo, hret, hexit, hres>>
    /\ UNCHANGED <<pool, incremental, tool, drain, cli>>

\* CmdFuture::poll behind `if (done) return true;`: the drain of the channel
\* (echoed unless silent), then waitpid(cpid, WNOHANG); back is where the
\* call returns to when the child still runs.
PollBody(op, back) ==
    /\ echo' = IF read_fd(proc.pty).got_data /\ ~hfut.silent
               THEN echo \o read_fd(proc.pty).data ELSE echo
    /\ CASE proc.state # "running" /\ ~WIFEXITED(proc) ->
              /\ hpc' = "aborted"
              /\ hexit' = PanicStatus
              /\ hfut' = [hfut EXCEPT !.done = TRUE]
              /\ proc' = [proc EXCEPT !.pty = <<>>, !.reaped = TRUE]
              /\ UNCHANGED hres
         [] proc.state # "running" /\ WIFEXITED(proc) ->
              /\ hpc' = "caller"
              /\ hfut' = poll_done(hfut, proc)
              /\ proc' = [proc EXCEPT !.pty = <<>>, !.reaped = TRUE]
              /\ hres' = Returned(op, IF op = "poll" THEN TRUE
                                      ELSE hfut'.exit_code, "none")
              /\ UNCHANGED hexit
         [] OTHER ->
              /\ hpc' = back
              /\ proc' = [proc EXCEPT !.pty = <<>>]
              /\ hres' = IF op = "poll" THEN Returned(op, FALSE, "none")
                         ELSE hres
              /\ UNCHANGED <<hfut, hexit>>

\* CmdFuture::poll.
FuturePoll ==
    /\ hpc = "poll"
    /\ hop = "poll"
    /\ IF hfut.done
       THEN /\ hpc' = "caller"
            /\ hres' = Returned("poll", TRUE, "none")
            /\ UNCHANGED <<hfut, proc, echo, hexit>>
       ELSE PollBody("poll", "caller")
    /\ UNCHANGED <<hcmd, hret, hop>>
    /\ UNCHANGED <<pool, incremental, tool, drain, cli>>

\* CmdFuture::await: one turn of `while (!done) done = poll(output);`, or
\* the return of exit_code.
FutureAwait ==
    /\ hpc = "await"
    /\ IF hfut.done
       THEN /\ hpc' = "caller"
            /\ hres' = Returned("await", hfut.exit_code, "none")
            /\ UNCHANGED <<hfut, proc, echo, hexit>>
       ELSE PollBody("await", "await")
    /\ UNCHANGED <<hcmd, hret, hop>>
    /\ UNCHANGED <<pool, incremental, tool, drain, cli>>

\* The process ::kill(cpid, SIGKILL) reaches: the child while it has not been
\* reaped (running, or a zombie), after that the process the pid was given
\* to if the caller may signal it, else none (ESRCH, EPERM).
kill_target ==
    CASE ~proc.reaped /\ proc.state = "running" -> "child"
      [] ~proc.reaped /\ proc.state # "running" -> "zombie"
      [] proc.reaped /\ proc.reused = "user" -> "stranger"
      [] OTHER -> "none"

\* CmdFuture::kill: `if (cpid < 0) return false;` negated.
tracked(fut) == fut.cpid >= 0

\* CmdFuture::kill.
FutureKill ==
    /\ hpc = "kill"
    /\ hpc' = "caller"
    /\ IF tracked(hfut) /\ kill_target # "none"
       THEN /\ hfut' = [hfut EXCEPT !.cpid = -1, !.done = TRUE,
                                    !.exit_code = -1]
            /\ proc' = IF kill_target = "child"
                       THEN [proc EXCEPT !.state = "signaled"] ELSE proc
            /\ hres' = Returned("kill", TRUE, kill_target)
       ELSE /\ hres' = Returned("kill", FALSE, "none")
            /\ UNCHANGED <<hfut, proc>>
    /\ UNCHANGED <<hcmd, echo, hret, hop, hexit>>
    /\ UNCHANGED <<pool, incremental, tool, drain, cli>>

\* The operating system gives the pid of the reaped child to a new process,
\* of this user or of another.
PidReuse(owner) ==
    /\ hpc # "aborted"
    /\ proc.reaped
    /\ proc.reused = "no"
    /\ proc' = [proc EXCEPT !.reused = owner]
    /\ UNCHANGED <<hpc, hcmd, hfut, echo, hret, hop, hexit, hres>>
    /\ UNCHANGED <<pool, incremental, tool, drain, cli>>

FutureNext ==
    \/ \E parts \in Parts, silent \in BOOLEAN, forked \in BOOLEAN :
            HandleStart("run_async", parts, FALSE, silent, forked)
    \/ \E op \in {"poll", "await", "kill"} : FutureCall(op)
    \/ FuturePoll
    \/ FutureAwait
    \/ FutureKill
    \/ \E owner \in {"user", "other"} : PidReuse(owner)
    \/ ProcWrite
    \/ \E st \in ExitStatuses : ProcExit(st)
    \/ ProcSignal

FutureSpec == Init /\ [][FutureNext]_vars


\* ------------------------------------------------------------------ Recipe
\* Recipe::Recipe(outputs, inputs, func).
RecipeMake(outputs, inputs) ==
    /\ rpc = "start"
    /\ recipe' = [inputs |-> inputs, outputs |-> outputs]
    /\ rpc' = "caller"
    /\ UNCHANGED <<files, rret, now, prior, rexit>>
    /\ UNCHANGED <<pool, handle, boot, tool, drain, cli>>

\* The caller calls a member function of its Recipe; the call has not
\* returned anything yet.
RecipeCall(op) ==
    /\ rpc = "caller"
    /\ rpc' = op
    /\ rret' = [op |-> "none", res |-> Value(FALSE)]
    /\ UNCHANGED <<files, recipe, now, prior, rexit>>
    /\ UNCHANGED <<pool, handle, boot, tool, drain, cli>>

\* Recipe::needs_rebuild, called by the caller.
RecipeNeedsRebuild ==
    /\ rpc = "needs_rebuild"
    /\ rret' = [op |-> "needs_rebuild", res |-> needs_rebuild(files, recipe)]
    /\ rpc' = "caller"
    /\ UNCHANGED <<files, recipe, now, prior, rexit>>
    /\ UNCHANGED <<pool, handle, boot, tool, drain, cli>>

\* Some program writes the file f, or sets its modification time, to t:
\* the present time, a time gone by or a time to come.
FileWrite(f, t) ==
    /\ files' = [files EXCEPT ![f] = t]
    /\ prior' = "none"
    /\ UNCHANGED <<recipe, rpc, rret, now, rexit>>
    /\ UNCHANGED <<pool, handle, boot, tool, drain, cli>>

\* Some program removes the file f.
FileRemove(f) ==
    /\ files[f] # 0
    /\ files' = [files EXCEPT ![f] = 0]
    /\ prior' = "none"
    /\ UNCHANGED <<recipe, rpc, rret, now, rexit>>
    /\ UNCHANGED <<pool, handle, boot, tool, drain, cli>>

\* The clock goes on.  Modification times have the clock's resolution: what
\* is written within one tick bears one time.
Tick ==
    /\ now < MaxTime
    /\ now' = now + 1
    /\ UNCHANGED <<files, recipe, rpc, rret, prior, rexit>>
    /\ UNCHANGED <<pool, handle, boot, tool, drain, cli>>

\* Where build() returns to: to the caller of the Recipe, or into
\* go_rebuild_yourself when that made the Recipe.
after_build == IF boot.top = 0 THEN "caller" ELSE "run_yourself"

\* Recipe::build up to the call of the build function: the check of the
\* inputs, then needs_rebuild, which throws what file_needs_rebuild throws.
Build ==
    /\ rpc = "build"
    /\ IF any_missing(files, recipe.inputs)
       THEN /\ rpc' = "exited"
            /\ rexit' = EXIT_FAILURE
            /\ UNCHANGED <<rret, prior>>
       ELSE LET res == needs_rebuild(files, recipe)
            IN  IF res.threw
                THEN /\ rpc' = after_build
                     /\ rret' = [op |-> "build", res |-> Threw]
                     /\ UNCHANGED <<prior, rexit>>
                ELSE IF ~res.val
                THEN /\ rpc' = after_build
                     /\ prior' = IF prior \in {"func", "func_noop"}
                                  THEN "func_noop" ELSE "noop"
                     /\ UNCHANGED <<rret, rexit>>
                ELSE /\ rpc' = "func"
                     /\ UNCHANGED <<rret, prior, rexit>>
    /\ UNCHANGED <<files, recipe, now>>
    /\ UNCHANGED <<pool, handle, boot, tool, drain, cli>>

\* The build function, func(inputs, outputs): it writes the outputs in
\* written, or it ends the process as Cmd::check does.
BuildFunc(written, ok) ==
    /\ rpc = "func"
    /\ written \subseteq {recipe.outputs[k] : k \in DOMAIN recipe.outputs}
    /\ IF ok
       THEN /\ files' = [f \in Files |->
                            IF f \in written THEN now ELSE files[f]]
            /\ prior' = IF \A k \in DOMAIN recipe.outputs :
                                recipe.outputs[k] \in written
                         THEN "func" ELSE "part"
            /\ rpc' = "verify"
            /\ UNCHANGED rexit
       ELSE /\ written = {}
            /\ rpc' = "exited"
            /\ rexit' = PanicStatus
            /\ UNCHANGED <<files, prior>>
    /\ UNCHANGED <<recipe, rret, now>>
    /\ UNCHANGED <<pool, handle, boot, tool, drain, cli>>

\* Mutant of BuildVerify: build() returns without looking at the outputs.
BuildVerify_unchecked ==
    /\ rpc = "verify"
    /\ rpc' = after_build
    /\ UNCHANGED <<files, recipe, rret, now, prior, rexit>>
    /\ UNCHANGED <<pool, handle, boot, tool, drain, cli>>

\* Recipe::build after the build function returned: the check of the outputs.
BuildVerify ==
    /\ rpc = "verify"
    /\ IF any_missing(files, recipe.outputs)
       THEN /\ rpc' = "exited"
            /\ rexit' = EXIT_FAILURE
       ELSE /\ rpc' = after_build
            /\ UNCHANGED rexit
    /\ UNCHANGED <<files, recipe, rret, now, prior>>
    /\ UNCHANGED <<pool, handle, boot, tool, drain, cli>>

RecipeNext ==
    \/ /\ rpc = "start"
       /\ \E outputs \in Paths, inputs \in Paths : RecipeMake(outputs, inputs)
    \/ \E op \in {"needs_rebuild", "build"} : RecipeCall(op)
    \/ RecipeNeedsRebuild
    \/ Build
    \/ \E written \in SUBSET Files, ok \in BOOLEAN : BuildFunc(written, ok)
    \/ BuildVerify
    \/ \E f \in Files, t \in 1..MaxTime : FileWrite(f, t)
    \/ \E f \in Files : FileRemove(f)
    \/ Tick

RecipeSpec == Init /\ [][RecipeNext]_vars

\* ------------------------------------------------------ go_rebuild_yourself
\* The paths of go_rebuild_yourself: binary_path, source_path and
\* header_path, the __FILE__ of bob.hpp.
Binary == "a"
Source == "b"
Header == "c"

\* The Recipe of go_rebuild_yourself.
rebuild_yourself == [inputs |-> <<Source, Header>>, outputs |-> <<Binary>>]

\* The argument vectors the program is started with by its user.
Argvs == {<<"./a">>, <<"./a", "x">>, <<"./a", "x", "y">>, <<"./a", "y", "x">>}

\* A process of the chain as go_rebuild_yourself starts in it: what its check
\* found, the commands it has run, the exit code of its rebuild command (-1
\* while it has run none), and how it ended.
NewProcess(argv) ==
    [argv |-> argv, found |-> "none", spawned |-> <<>>, built |-> -1,
     ended |-> "no", status |-> -1]

\* The process that is running: the last one started that still lives.
self == boot.procs[boot.top]

\* The user starts the program, whose binary exists.
Exec(argv) ==
    /\ rpc = "start"
    /\ files[Binary] # 0
    /\ boot' = [procs |-> <<NewProcess(argv)>>, top |-> 1]
    /\ rpc' = "boot"
    /\ UNCHANGED <<files, recipe, rret, now, prior, rexit>>
    /\ UNCHANGED <<pool, handle, tool, drain, cli>>

\* go_rebuild_yourself up to the rebuild command: the Recipe is made and
\* asked needs_rebuild(), whose exception nobody catches; when it is true,
\* build() checks the inputs and calls the build function.
GoRebuildYourself ==
    /\ rpc = "boot"
    /\ recipe' = rebuild_yourself
    /\ LET res == needs_rebuild(files, rebuild_yourself)
       IN  IF res.threw
           THEN /\ rpc' = "terminated"
                /\ UNCHANGED <<boot, rexit>>
           ELSE IF ~res.val
           THEN /\ rpc' = "main"
                /\ boot' = [boot EXCEPT !.procs[boot.top].found = "fresh"]
                /\ UNCHANGED rexit
           ELSE /\ boot' = [boot EXCEPT !.procs[boot.top].found = "stale"]
                /\ IF any_missing(files, rebuild_yourself.inputs)
                   THEN rpc' = "exited" /\ rexit' = EXIT_FAILURE
                   ELSE rpc' = "func" /\ UNCHANGED rexit
    /\ UNCHANGED <<files, rret, now, prior>>
    /\ UNCHANGED <<pool, handle, tool, drain, cli>>

\* Mutant of RebuildCmd_check: the exit code is not looked at.
RebuildCmd_check_ignored(ok) == TRUE

\* The build function of go_rebuild_yourself goes on after Cmd::check when
\* the rebuild command exited with status 0 (ok).
RebuildCmd_check(ok) == ok

\* The build function of go_rebuild_yourself: config.cmd(source, binary)
\* .check().  The rebuild command writes the binary or does not, and exits
\* with 0 (ok) or with EXIT_FAILURE; check() ends the process unless the
\* command exited with status 0.
RebuildCmd(written, ok) ==
    /\ rpc = "func"
    /\ written \subseteq {Binary}
    /\ boot' = [boot EXCEPT !.procs[boot.top].spawned =
                                 Append(@, cmd(BOB_REBUILD_CMD, Source, Binary)),
                             !.procs[boot.top].built =
                                 IF ok THEN 0 ELSE EXIT_FAILURE]
    /\ files' = [f \in Files |-> IF f \in written THEN now ELSE files[f]]
    /\ prior' = IF Binary \in written THEN "func" ELSE "part"
    /\ IF RebuildCmd_check(ok)
       THEN rpc' = "verify" /\ UNCHANGED rexit
       ELSE rpc' = "exited" /\ rexit' = PanicStatus
    /\ UNCHANGED <<recipe, rret, now>>
    /\ UNCHANGED <<pool, handle, tool, drain, cli>>

\* run_yourself, the loop from argv[i] on (1-based: argv[i + 1]).
RECURSIVE run_yourself_from(_, _, _)
run_yourself_from(run_cmd, argv, k) ==
    IF k > Len(argv) THEN run_cmd
    ELSE run_yourself_from(Append(run_cmd, argv[k]), argv, k + 1)

\* Mutant of run_yourself: argv[0] is passed on as an argument too.
run_yourself_all(bin, argv) == run_yourself_from(<<"./" \o bin>>, argv, 1)

\* run_yourself: the command that runs the binary again.
run_yourself(bin, argv) == run_yourself_from(<<"./" \o bin>>, argv, 2)

\* run_yourself up to the start of the child: execvp fails in the child when
\* the binary is gone, and the child exits with EXIT_FAILURE.
RunYourself ==
    /\ rpc = "run_yourself"
    /\ Len(boot.procs) <= MaxDepth
    /\ LET run_cmd == run_yourself(Binary, self.argv)
           procs == [boot.procs EXCEPT ![boot.top].spawned = Append(@, run_cmd)]
           child == IF files[Binary] # 0 THEN NewProcess(run_cmd)
                    ELSE [NewProcess(run_cmd) EXCEPT !.ended = "exit",
                                                     !.status = EXIT_FAILURE]
       IN  /\ boot' = [procs |-> Append(procs, child),
                       top |-> IF files[Binary] # 0 THEN boot.top + 1
                               ELSE boot.top]
           /\ rpc' = IF files[Binary] # 0 THEN "boot" ELSE "reap"
    /\ UNCHANGED <<files, recipe, rret, now, prior, rexit>>
    /\ UNCHANGED <<pool, handle, tool, drain, cli>>

\* go_rebuild_yourself has returned; the program does its work and exits.
MainExit(st) ==
    /\ rpc = "main"
    /\ rpc' = "exited"
    /\ rexit' = st
    /\ UNCHANGED <<files, recipe, rret, now, prior, boot>>
    /\ UNCHANGED <<pool, handle, tool, drain, cli>>

\* The running process is gone: it exited, or std::terminate aborted it.  The
\* process that started it, waiting in Cmd::run, goes on.
ChildGone ==
    /\ rpc \in {"exited", "terminated"}
    /\ boot.top >= 1
    /\ boot' = [procs |-> [boot.procs EXCEPT
                              ![boot.top].ended =
                                  IF rpc = "exited" THEN "exit" ELSE "signal",
                              ![boot.top].status = rexit],
                top |-> boot.top - 1]
    /\ rpc' = IF boot.top > 1 THEN "reap" ELSE "done"
    /\ rexit' = -1
    /\ UNCHANGED <<files, recipe, rret, now, prior>>
    /\ UNCHANGED <<pool, handle, tool, drain, cli>>

\* Cmd::run in run_yourself, as exit() gets it: the child's exit status, or
\* the PANIC of await_future for a child that a signal killed.
run_status(child) ==
    IF child.ended = "signal" THEN PanicStatus ELSE child.status

\* exit(run_yourself(binary_path, argc, argv)).
RunYourselfReturn ==
    /\ rpc = "reap"
    /\ rexit' = run_status(boot.procs[boot.top + 1])
    /\ rpc' = "exited"
    /\ UNCHANGED <<files, recipe, rret, now, prior, boot>>
    /\ UNCHANGED <<pool, handle, tool, drain, cli>>

BootNext ==
    \/ \E argv \in Argvs : Exec(argv)
    \/ GoRebuildYourself
    \/ \E written \in SUBSET {Binary}, ok \in BOOLEAN : RebuildCmd(written, ok)
    \/ BuildVerify
    \/ RunYourself
    \/ \E st \in ExitStatuses : MainExit(st)
    \/ ChildGone
    \/ RunYourselfReturn
    \/ \E f \in Files, t \in 1..MaxTime : FileWrite(f, t)
    \/ \E f \in Files : FileRemove(f)
    \/ Tick

BootSpec == Init /\ [][BootNext]_vars

\* -------------------------------------------------------- helper functions
\* The tokens of a rebuild command template, and the templates of at most
\* MaxParts tokens.
Tokens == {"_PROGRAM_", "_SOURCE_", "g++", "-o"}
Templates == UNION {[1..n -> Tokens] : n \in 0..MaxParts}

\* A call that has not been made: the value of tool before any call.
NoCall ==
    [op |-> "none", parts |-> <<>>, source |-> "", program |-> "",
     cmd |-> <<>>, path_env |-> <<>>, holds |-> {}, ret |-> <<>>]

\* RebuildConfig(parts).cmd(source, program) is called, once, and returns.
CallCmd(parts, source, program) ==
    /\ tool = NoCall
    /\ tool' = [NoCall EXCEPT !.op = "cmd", !.parts = parts, !.source = source,
                              !.program = program,
                              !.cmd = cmd(parts, source, program)]
    /\ UNCHANGED <<pool, handle, incremental, drain, cli>>

\* Strings are sequences of characters.  The value of PATH is made of the
\* letters of directory names and of colons, and has at most MaxPathLen
\* characters; bin_name is the one name searched for.
Chars == {"u", "v", ":"}
PathEnvs == UNION {[1..n -> Chars] : n \in 0..MaxPathLen}
bin_name == <<"g">>

\* The directories that may hold bin_name: u, v and the working directory,
\* which is what an empty directory name stands for.
Dirs == {<<"u">>, <<"v">>, <<>>}

\* std::string::npos.
npos == -1

\* std::string::find(':', start) on str, 0-based, npos when there is none.
RECURSIVE find(_, _)
find(str, start) ==
    IF start >= Len(str) THEN npos
    ELSE IF str[start + 1] = ":" THEN start
    ELSE find(str, start + 1)

\* std::string::substr(start, count) on str, 0-based.
substr(str, start, count) == SubSeq(str, start + 1, start + count)

\* fs::path(dir) / bin_name.
bin_path(dir) == IF dir = <<>> THEN bin_name ELSE dir \o <<"/">> \o bin_name

\* fs::exists(bin) when the directories in holds hold bin_name.
exists(bin, holds) == \E dir \in holds : bin = bin_path(dir)

\* search_path, the while loop entered with start and end; the path it
\* returns, empty when the loop ends.
RECURSIVE search_path_from(_, _, _, _)
search_path_from(path_env, holds, start, end) ==
    IF end = npos THEN <<>>
    ELSE LET dir == substr(path_env, start, end - start)
             bin == bin_path(dir)
         IN  IF exists(bin, holds) THEN bin
             ELSE search_path_from(path_env, holds, end + 1,
                                   find(path_env, end + 1))

\* search_path(bin_name) with PATH set to path_env: PANIC when PATH is
\* empty, else the path returned.
search_path(path_env, holds) ==
    IF path_env = <<>> THEN [panic |-> TRUE, path |-> <<>>]
    ELSE [panic |-> FALSE,
          path |-> search_path_from(path_env, holds, 0, find(path_env, 0))]

\* search_path(bin_name) is called, once, with PATH set to path_env while
\* the directories in holds hold bin_name; it returns or ends the process.
CallSearchPath(path_env, holds) ==
    /\ tool = NoCall
    /\ tool' = [NoCall EXCEPT
                   !.op = IF search_path(path_env, holds).panic
                          THEN "search_path_panic" ELSE "search_path",
                   !.path_env = path_env,
                   !.holds = holds,
                   !.ret = search_path(path_env, holds).path]
    /\ UNCHANGED <<pool, handle, incremental, drain, cli>>

\* search_path(bin_name) is called while PATH is not set: getenv returns a
\* null pointer, and making a std::string of it is undefined.  The library
\* throws an exception nobody catches, or reading the string faults; either
\* way a signal ends the process.
CallSearchPathUnset(outcome) ==
    /\ tool = NoCall
    /\ tool' = [NoCall EXCEPT !.op = outcome]
    /\ UNCHANGED <<pool, handle, incremental, drain, cli>>

ToolNext ==
    \/ \E parts \in Templates, source \in {"b", "_PROGRAM_"},
          program \in {"a", "_SOURCE_"} : CallCmd(parts, source, program)
    \/ \E path_env \in PathEnvs, holds \in SUBSET Dirs :
          CallSearchPath(path_env, holds)
    \/ \E outcome \in {"search_path_terminate", "search_path_fault"} :
          CallSearchPathUnset(outcome)

ToolSpec == Init /\ [][ToolNext]_vars

\* ------------------------------ one poll of a child that keeps on writing
\* The caller holds the handle of a child whose output it neither echoes nor
\* captures (silent, no out-buffer), and calls poll() on it again and
\* again.  Each read() of read_fd's loop is a step, and so is waitpid: the
\* child writes, and exits, between any two of them.  It writes as long as
\* it runs, and its write blocks while the pseudo-terminal is full.
\* Cmd::run_async: the child exists and the handle is not done.
ChattyStart ==
    /\ drain.pc = "start"
    /\ drain' = [drain EXCEPT !.pc = "caller", !.child = "running"]
    /\ UNCHANGED <<pool, handle, incremental, tool, cli>>

\* CmdFuture::poll up to the call of read_fd: `if (done) return true;`.
PollEnter ==
    /\ drain.pc = "caller"
    /\ drain' = IF drain.done
                THEN [drain EXCEPT !.ret = "true"]
                ELSE [drain EXCEPT !.pc = "read", !.got_data = FALSE,
                                   !.reads = 0, !.ret = "none"]
    /\ UNCHANGED <<pool, handle, incremental, tool, cli>>

\* read_fd: one turn of its loop.  `if (n <= 0) return got_data;` leads to
\* the waitpid of poll; otherwise the bytes are taken and the loop goes on.
\* reads counts the turns that took data, up to MaxReads.
ReadLoop ==
    /\ drain.pc = "read"
    /\ LET n == read(drain.pending)
       IN  drain' = IF n <= 0
                    THEN [drain EXCEPT !.pc = "waitpid"]
                    ELSE [drain EXCEPT !.pending = @ - n,
                                       !.got_data = TRUE,
                                       !.reads = IF @ < MaxReads THEN @ + 1
                                                 ELSE @]
    /\ UNCHANGED <<pool, handle, incremental, tool, cli>>

\* CmdFuture::poll from waitpid(cpid, &status, WNOHANG) on, for a child that
\* exits normally: `if (result == 0) return false;`, else done.
PollWaitpid ==
    /\ drain.pc = "waitpid"
    /\ drain' = IF drain.child = "running"
                THEN [drain EXCEPT !.pc = "caller", !.ret = "false"]
                ELSE [drain EXCEPT !.pc = "caller", !.ret = "true",
                                   !.done = TRUE]
    /\ UNCHANGED <<pool, handle, incremental, tool, cli>>

\* The child writes n bytes to its pseudo-terminal.
ChattyWrite(n) ==
    /\ drain.child = "running"
    /\ drain.pending + n <= PtyCap
    /\ drain' = [drain EXCEPT !.pending = @ + n]
    /\ UNCHANGED <<pool, handle, incremental, tool, cli>>

\* The child exits.
ChattyExit ==
    /\ drain.child = "running"
    /\ drain' = [drain EXCEPT !.child = "exited"]
    /\ UNCHANGED <<pool, handle, incremental, tool, cli>>

\* The steps of the thread that called poll().
Poller == PollEnter \/ ReadLoop \/ PollWaitpid

ChattyNext ==
    \/ ChattyStart
    \/ Poller
    \/ \E n \in 1..PtyCap : ChattyWrite(n)
    \/ ChattyExit

\* The calling thread keeps executing (weak fairness of its steps); nothing
\* is assumed of the child.
ChattySpec == Init /\ [][ChattyNext]_vars /\ WF_vars(Poller)

\* ---------------------------------------------- the flags of a CliCommand
\* CliCommand::add_flag(const CliFlag &arg), which every overload of
\* add_flag calls with the CliFlag it constructs: PANIC ends the process.
add_flag(arg) ==
    /\ cli.exit = -1
    /\ Len(cli.flags) < MaxFlags
    /\ LET short_existing == find_short(cli.flags, arg.short_name)
           long_existing == find_long(cli.flags, arg.long_name)
       IN  cli' = IF short_existing \/ long_existing
                  THEN [cli EXCEPT !.op = "add_flag", !.last = arg,
                                   !.exit = PanicStatus]
                  ELSE [cli EXCEPT !.op = "add_flag", !.last = arg,
                                   !.flags = Append(@, arg)]
    /\ UNCHANGED <<pool, handle, incremental, tool, drain>>

\* The overloads of add_flag, called with the names of a bounded set.
CliNext ==
    \/ \E long_name \in LongNames : add_flag(CliFlagLong(long_name))
    \/ \E short_name \in ShortNames : add_flag(CliFlagShort(short_name))
    \/ \E short_name \in ShortNames, long_name \in LongNames :
          add_flag(CliFlag(short_name, long_name))

CliSpec == Init /\ [][CliNext]_vars



TypeOK ==
    /\ pc \in {"start", "idle", "populate", "await", "returned", "aborted"}
    /\ cursor \in 0..MaxCmds
    /\ pc \in {"populate", "await"} => Len(exit_codes) = Len(cmds)
    /\ \A k \in DOMAIN slots : slots[k].index >= Len(cmds) => slots[k].fut.done
    /\ drain.pending \in 0..PtyCap
    /\ drain.reads \in 0..MaxReads
    /\ Len(cli.flags) <= MaxFlags

\* ------------------------------------------------------------------ claims
\* The processes of this run whose termination the runner has not observed.
Unobserved == {p \in DOMAIN children : ~children[p].reaped}

\* The processes started in this run for cmds[k].
StartedFor(k) == {p \in DOMAIN children : children[p].cmd = k}

Indexes == 0..(Len(cmds) - 1)

\* run() has returned after its children finished in another order than they
\* were queued: slot 0 still names command 0, slot 1 has gone on to command 2.
OutOfOrder ==
    /\ pc = "returned"
    /\ Len(slots) = 2
    /\ Len(cmds) = 3
    /\ slots[1].index = 0
    /\ slots[2].index = 2

\* C1: during run(), the children that were started and whose termination the
\* runner has not yet observed are never more than the concurrency limit.
C1_AtMostPUnobserved == Cardinality(Unobserved) <= process_count

\* C1 witness: the limit binds: two children run under a limit of 2 while a
\* third command waits.
C1_Witness ==
    /\ pc = "populate"
    /\ process_count = 2
    /\ Cardinality(Unobserved) = 2
    /\ \A p \in Unobserved : children[p].state = "running"
    /\ any_waiting

\* C2: in one run() no command index is started twice, only queued indexes
\* are started, and when run() returns every index 0..N-1 has been started.
C2_StartedExactlyOnce ==
    /\ \A p \in DOMAIN children : Cardinality(StartedFor(children[p].cmd)) = 1
    /\ pc \in {"populate", "await", "returned"} =>
          \A p \in DOMAIN children : children[p].cmd \in Indexes
    /\ pc = "returned" => \A k \in Indexes : Cardinality(StartedFor(k)) = 1

\* C2 witness: a run of 3 commands on 2 slots has returned, the children
\* having finished out of order.
C2_Witness == OutOfOrder /\ Len(children) = 3

\* C3: when run() returns, exit_codes[k] is the exit status of the child that
\* was started for cmds[k], for every k.
C3_ExitCodeOfItsCommand ==
    pc = "returned" =>
        \A k \in Indexes :
            \A p \in StartedFor(k) : exit_codes[k + 1] = children[p].status

\* C3 witness: the children finished out of order and with different
\* statuses: command 0 exited last, with 1, the others with 0.
C3_Witness == OutOfOrder /\ exit_codes = <<1, 0, 0>>

\* C4: when run() returns, exit_codes has as many entries as cmds, none is
\* the sentinel -1, and the cursor equals the number of commands.
C4_CompleteAfterRun ==
    pc = "returned" =>
        /\ Len(exit_codes) = Len(cmds)
        /\ \A k \in DOMAIN exit_codes : exit_codes[k] # -1
        /\ cursor = Len(cmds)

\* C4 witness: run() has returned for more commands than there are slots.
C4_Witness ==
    /\ pc = "returned"
    /\ Len(cmds) = 3
    /\ process_count = 2
    /\ Len(slots) = 2

\* C5: fail-slow: when run() returns, every command has been started and the
\* termination of every started child has been observed, also when commands
\* exited with a status other than 0.
C5_FailSlow ==
    pc = "returned" =>
        /\ \A k \in Indexes : StartedFor(k) # {}
        /\ Unobserved = {}
        /\ \A p \in DOMAIN children : children[p].state = "exited"

\* C5 witness: the first of 3 commands failed on a runner of one slot, and
\* the two queued behind it ran and succeeded.
C5_Witness ==
    /\ pc = "returned"
    /\ process_count = 1
    /\ Len(slots) = 1
    /\ exit_codes = <<1, 0, 0>>
    /\ Len(children) = 3

\* run() has just been entered.
RunEntered == pc = "populate" /\ i = 0 /\ cursor = 0 /\ children = <<>>

\* The runner has a slot for each of its process_count >= 1 processes, and no
\* slot names a command that cmds does not have.
SoundSlots ==
    /\ process_count >= 1
    /\ Len(slots) = process_count
    /\ \A k \in DOMAIN slots : slots[k].index < Len(cmds)

\* C6: when every child exits normally, run(), entered on a runner with sound
\* slots, eventually returns, for every number of commands and every
\* concurrency limit P >= 1.
C6_RunReturns == (RunEntered /\ SoundSlots) ~> (pc = "returned")

\* C6 witness: run() has returned after its loop had to wait for a slot: 3
\* commands went through one slot.
C6_Witness ==
    /\ pc = "returned"
    /\ process_count = 1
    /\ Len(slots) = 1
    /\ Len(children) = 3

\* What the child of the single Cmd::run() has written, first byte first.
Written == [k \in 1..proc.wrote |-> k]

\* C7: when the await loop of a handle that captures its output has finished,
\* the capture buffer holds exactly the bytes the child wrote, in order.
C7_NoOutputLost ==
    (hpc = "returned" /\ hcmd.capture_output) => hcmd.output_str = Written

\* C8: on a runner with a slot per process, a run() after clear() and new
\* pushes visits no slot that names an index outside the new cmds, starts
\* each new command once and ends with exit_codes holding the statuses of the
\* new commands.
C8_ReusableAfterClear ==
    Len(slots) = process_count =>
        /\ (pc \in {"populate", "await"} /\ i < Len(slots)) =>
               slots[i + 1].index < Len(cmds)
        /\ ~oob
        /\ pc = "returned" =>
               /\ Len(exit_codes) = Len(cmds)
               /\ \A k \in Indexes :
                     /\ Cardinality(StartedFor(k)) = 1
                     /\ \A p \in StartedFor(k) :
                           exit_codes[k + 1] = children[p].status

\* C10: a constructor given the explicit process count 0 ends the process.
C10_ZeroLimitFatal ==
    (ctor.kind \in {"count", "cmds_count"} /\ ctor.n = 0) => pc = "aborted"

\* C9: any_failed() is true iff some exit code is not 0, all_succeded() is
\* its negation, and run() returns all_succeded() of the exit codes it left.
C9_AnyFailed ==
    /\ any_failed <=> \E k \in DOMAIN exit_codes : exit_codes[k] # 0
    /\ all_succeded <=> ~any_failed
    /\ pc = "returned" => ret = all_succeded

\* C9 witness: run() returned false for exit codes whose first is 0 and whose
\* last is not.
C9_Witness ==
    /\ pc = "returned"
    /\ ret = FALSE
    /\ exit_codes = <<0, 0, 1>>

\* --------------------------------------------------- claims on Cmd's calls
\* The Cmd the caller ran has no argument, or an empty first argument.
EmptyCommand == Len(hcmd.parts) = 0 \/ hcmd.parts[1] = ""

\* run() has returned an exit code to the caller of run() or of check().
RunReturned == hpc \in {"returned", "checked"} \/ hret # -1

\* C11: run() and check() (each begins with run_async()) on a Cmd without
\* arguments or with an empty first argument end the calling process with a
\* status other than 0 before any child is forked, and no exit code comes
\* back.
C11_EmptyCommandFatal ==
    (hpc # "start" /\ EmptyCommand) =>
        /\ hpc = "aborted"
        /\ hexit \notin {-1, 0}
        /\ proc.state = "none"
        /\ hfut = NewFuture
        /\ ~RunReturned

\* C11 witness: check() was called on a Cmd whose only argument is the empty
\* string, and the process has ended.
C11_Witness ==
    /\ hop = "check"
    /\ hcmd.parts = <<"">>
    /\ hpc = "aborted"

\* C12: a spawn that fails ends the calling process and yields no exit code:
\* when forkpty fails no child exists and the process has ended, and when the
\* program cannot be executed run() never returns an exit code for it.
C12_SpawnFailureFatal ==
    /\ (hpc # "start" /\ proc.state = "none") => hpc = "aborted"
    /\ (proc.state # "none" /\ ~proc.execd) => ~RunReturned

\* C12 witness: execvp did not find the program, the child exited with
\* EXIT_FAILURE and run() returned that as the command's exit code.
C12_Witness ==
    /\ hcmd.parts = <<"nosuch">>
    /\ hpc = "returned"
    /\ hret = EXIT_FAILURE

SignalObserved ==
    {p \in DOMAIN children :
        children[p].state = "signaled" /\ children[p].reaped}

\* C13: the poll of the runner that observes a child killed by a signal ends
\* the process in that step and writes no exit code, and the process stays
\* ended, whatever the other children do.
C13_SignalFatal ==
    /\ [](SignalObserved # {} => pc = "aborted")
    /\ [][SignalObserved' # SignalObserved =>
             (pc' = "aborted" /\ exit_codes' = exit_codes)]_vars

\* C13 witness: the process has ended on a child killed by a signal while
\* another child of the same run was still running.
C13_Witness ==
    /\ pc = "aborted"
    /\ \E p \in SignalObserved :
          /\ exit_codes[children[p].cmd + 1] = -1
          /\ \E q \in DOMAIN children :
                children[q].state = "running" /\ ~children[q].reaped

\* ------------------------------------------------- claims on the CmdFuture
\* kill() has returned true on the handle: only kill() sets cpid back to -1.
Killed == hfut.cpid = -1 /\ proc.state # "none"

\* waitpid has returned the child's normal exit to a poll of the handle.
ExitObserved == proc.reaped /\ proc.state = "exited"

\* C15: over any calls of poll(), await() and kill() on a handle, done never
\* goes back to false, exit_code does not change once done is true, and a
\* poll() of a done handle returns true and touches nothing.
C15_DoneOnceCodeFrozen ==
    [][/\ hfut.done => (hfut'.done /\ hfut'.exit_code = hfut.exit_code)
       /\ (hpc = "poll" /\ hpc' # "poll" /\ hfut.done) =>
              /\ hres' = Returned("poll", TRUE, "none")
              /\ UNCHANGED <<hfut, proc, echo>>]_vars

\* C15 witness: the handle was done with the child's exit code 0, and a later
\* kill() has replaced the code by -1.
C15_Witness ==
    /\ hres = Returned("kill", TRUE, "stranger")
    /\ ExitObserved
    /\ proc.status = 0
    /\ hfut.exit_code = -1

\* C16: kill() returns true iff it signalled the live child the handle
\* tracks; after a kill() that returned true the handle is done with exit
\* code -1, a later kill() returns false and signals nothing, and a later
\* poll() returns true without a waitpid.
C16_KillContract ==
    /\ []((hres.op = "kill" /\ hres.val) => hres.sent = "child")
    /\ [](Killed => (hfut.done /\ hfut.exit_code = -1))
    /\ [][/\ (hpc = "kill" /\ hpc' # "kill" /\ hfut.cpid >= 0
                 /\ ~proc.reaped /\ proc.state = "running") =>
                (hres'.val = TRUE /\ proc'.state = "signaled")
          /\ (hpc = "kill" /\ hpc' # "kill" /\ Killed) =>
                (hres' = Returned("kill", FALSE, "none") /\ UNCHANGED proc)
          /\ (hpc = "poll" /\ hpc' # "poll" /\ Killed) =>
                (hres' = Returned("poll", TRUE, "none") /\ UNCHANGED proc)
         ]_vars

\* C16 witness: kill() returned true on a child that had already exited with
\* 0 and was waiting to be reaped.
C16_Witness ==
    /\ hres = Returned("kill", TRUE, "zombie")
    /\ proc.state = "exited"
    /\ proc.status = 0
    /\ hfut.exit_code = -1

\* C17 as stated: while the process lives, the last poll() returned true iff
\* the child's termination has been observed, and what await() returned is
\* the child's exit status.
C17_AsStated ==
    hpc # "aborted" =>
        /\ hres.op = "poll" => (hres.val <=> ExitObserved)
        /\ hres.op = "await" => (hfut.done /\ hres.code = proc.status)

\* C17: while the process lives, poll() returns the handle's done flag, which
\* it leaves false when it returns false; a handle is done once a poll has
\* observed the child's exit or once kill() has returned true; await()
\* returns only when the handle is done, and it returns the child's exit
\* status, or -1 after such a kill().
C17_PollAwait ==
    hpc # "aborted" =>
        /\ hres.op = "poll" => (hres.val <=> hfut.done)
        /\ hfut.done => (Killed \/ ExitObserved)
        /\ ExitObserved => hfut.done
        /\ hres.op = "await" =>
              /\ hfut.done
              /\ hres.code = hfut.exit_code
              /\ hres.code = IF Killed THEN -1 ELSE proc.status

\* C17 witness: await() has returned 1, the exit status of a child that ran
\* the program and that no kill() has touched.
C17_Witness ==
    /\ hres = Returned("await", 1, "none")
    /\ ExitObserved
    /\ proc.status = 1
    /\ proc.execd
    /\ ~Killed

\* ------------------------------------------------ claims on the two flags
\* C18: a Cmd whose capture_output flag is false keeps its output_str as it
\* was (empty) while it runs and after it has run.
C18_CaptureOnlyWhenFlag == ~hcmd.capture_output => hcmd.output_str = <<>>

\* C18 witness: run() has returned for a Cmd with capture_output false, and
\* its output_str holds what the child wrote.
C18_Witness ==
    /\ hpc = "returned"
    /\ ~hcmd.capture_output
    /\ proc.wrote = MaxOut
    /\ hcmd.output_str = Written

\* C19: the handle of every command the runner has started is silent,
\* whether the command was pushed or given to a constructor.
C19_SchedulerSilent ==
    \A k \in DOMAIN slots : slots[k].index >= 0 => slots[k].fut.silent

\* C19 witness: a runner made from a command list is running that command
\* with a handle that echoes the child's output.
C19_Witness ==
    /\ ctor.kind \in {"cmds", "cmds_count"}
    /\ pc = "populate"
    /\ \E k \in DOMAIN slots :
          /\ slots[k].index = 0
          /\ ~slots[k].fut.done
          /\ ~slots[k].fut.silent
          /\ ~cmds[1].silent

\* -------------------------------------------------------- claims on Recipe
\* The elements of a list of paths.
Range(paths) == {paths[k] : k \in DOMAIN paths}

\* Some declared output is missing, or is older than some declared input.
OutOfDate(fs, r) ==
    \/ \E o \in Range(r.outputs) : fs[o] = 0
    \/ \E o \in Range(r.outputs), n \in Range(r.inputs) :
          fs[o] # 0 /\ fs[n] # 0 /\ fs[o] < fs[n]

\* C20: needs_rebuild(), called when every declared input exists, returns
\* true iff some declared output is missing or older than some declared
\* input, for every list of inputs and of outputs.
C20_NeedsRebuildIff ==
    [][(/\ rpc = "needs_rebuild"
        /\ rpc' = "caller"
        /\ \A n \in Range(recipe.inputs) : files[n] # 0) =>
          rret'.res = Value(OutOfDate(files, recipe))]_vars

\* C20 witness: needs_rebuild() has returned false for a recipe without
\* inputs whose only output is missing.
C20_Witness ==
    /\ rpc = "caller"
    /\ recipe = [inputs |-> <<>>, outputs |-> <<"a">>]
    /\ files["a"] = 0
    /\ rret = [op |-> "needs_rebuild", res |-> Value(FALSE)]

\* C21: build() called while a declared input is missing ends the process
\* with a failure status at once: the build function is not called and no
\* file is created or modified, whatever the state of the outputs.
C21_MissingInputFatal ==
    [][(/\ rpc = "build"
        /\ rpc' # "build"
        /\ \E n \in Range(recipe.inputs) : files[n] = 0) =>
          (/\ rpc' = "exited"
           /\ rexit' = EXIT_FAILURE
           /\ files' = files)]_vars

\* C21 witness: build() has ended the process because its input is missing,
\* while its output exists.
C21_Witness ==
    /\ rpc = "exited"
    /\ rexit = EXIT_FAILURE
    /\ prior = "none"
    /\ recipe = [inputs |-> <<"b">>, outputs |-> <<"a">>]
    /\ files["b"] = 0
    /\ files["a"] # 0

\* C22: when build() returns after the build function ran, every declared
\* output exists; when an output is missing after the build function ran,
\* build() ends the process with a failure status.
C22_OutputsVerified ==
    [][(/\ rpc = "verify"
        /\ rpc' # "verify") =>
          (/\ rpc' = "caller" => \A o \in Range(recipe.outputs) : files'[o] # 0
           /\ (\E o \in Range(recipe.outputs) : files[o] = 0) =>
                 (rpc' = "exited" /\ rexit' = EXIT_FAILURE))]_vars

\* C22 witness: build() has returned after a build function that wrote both
\* outputs, and both exist.
C22_Witness ==
    /\ rpc = "caller"
    /\ prior = "func"
    /\ Len(recipe.outputs) = 2
    /\ recipe.outputs[1] # recipe.outputs[2]
    /\ \A o \in Range(recipe.outputs) : files[o] # 0

\* build() is called again right after a build() that returned, and no
\* program has written or removed a file in between.
CalledAgain == rpc = "build" /\ prior \in {"func", "noop", "func_noop"}

\* C23 as stated: of two calls of build() in a row, with a build function
\* that writes every declared output and no input modified in between, the
\* second does not call the build function.
C23_AsStated == [][CalledAgain => rpc' # "func"]_vars

\* C23, amended: the second of two such calls does not call the build
\* function unless an input bears a later modification time than an output
\* that the build function of the first call wrote.
C23_Idempotent ==
    [][(CalledAgain /\ rpc' = "func") =>
          (/\ prior = "func"
           /\ \E n \in Range(recipe.inputs), o \in Range(recipe.outputs) :
                 files[o] < files[n])]_vars

\* C23 witness: build() called the build function, which wrote both outputs,
\* and build() called again at once has returned without calling it.
C23_Witness ==
    /\ rpc = "caller"
    /\ prior = "func_noop"
    /\ Len(recipe.outputs) = 2
    /\ Len(recipe.inputs) > 0

\* Every declared input and output exists, and there is an output.
AllExist(fs, r) ==
    /\ r.outputs # <<>>
    /\ \A f \in Range(r.inputs) \cup Range(r.outputs) : fs[f] # 0

\* A program sets the modification time of the declared input n to the
\* present time, and changes it thereby.
Touch(n) ==
    /\ n \in Range(recipe.inputs)
    /\ files[n] # now
    /\ files' = [files EXCEPT ![n] = now]

\* build() returns after a build function that wrote every declared output;
\* no other program has written or removed a file since, and every input
\* exists.
BuildReturns ==
    /\ rpc = "verify"
    /\ rpc' = "caller"
    /\ prior = "func"
    /\ AllExist(files, recipe)

\* needs_rebuild() of the Recipe was false and no longer is (which takes a
\* change of the files).
TurnsStale ==
    /\ recipe' = recipe
    /\ files' # files
    /\ needs_rebuild(files, recipe) = Value(FALSE)
    /\ needs_rebuild(files', recipe) # Value(FALSE)

\* C24 as stated: when all outputs exist, updating the modification time of
\* a declared input makes needs_rebuild() true; when the following build()
\* returns, needs_rebuild() is false, and it stays false until an input is
\* modified or an output is removed.
C24_AsStated ==
    [][/\ \A n \in Files : (AllExist(files, recipe) /\ Touch(n)) =>
              needs_rebuild(files', recipe) = Value(TRUE)
       /\ BuildReturns => needs_rebuild(files', recipe) = Value(FALSE)
       /\ TurnsStale =>
              \/ \E n \in Range(recipe.inputs) : files'[n] # files[n]
              \/ \E o \in Range(recipe.outputs) : files'[o] = 0]_vars

\* C24, amended: when all inputs and outputs exist, giving a declared input
\* a modification time later than that of some output makes needs_rebuild()
\* true; when the following build() returns, needs_rebuild() is false unless
\* an input is dated later than the outputs just written; it stays false
\* until an input is modified or removed, or an output is removed or given
\* an earlier modification time.
C24_RoundTrip ==
    [][/\ \A n \in Files :
              (/\ Touch(n)
               /\ AllExist(files, recipe)
               /\ \E o \in Range(recipe.outputs) : files'[o] < files'[n]) =>
                  needs_rebuild(files', recipe) = Value(TRUE)
       /\ (/\ BuildReturns
           /\ \A n \in Range(recipe.inputs), o \in Range(recipe.outputs) :
                 files'[n] <= files'[o]) =>
              needs_rebuild(files', recipe) = Value(FALSE)
       /\ \/ \E n \in Range(recipe.inputs) : files'[n] # files[n]
          \/ \E o \in Range(recipe.outputs) : files'[o] < files[o]
          \/ ~TurnsStale]_vars

\* C24 witness: an input was touched after the clock went on, build() ran the
\* build function, and needs_rebuild() called right after it returned false.
C24_Witness ==
    /\ rpc = "caller"
    /\ prior = "func"
    /\ rret = [op |-> "needs_rebuild", res |-> Value(FALSE)]
    /\ now > 1
    /\ Len(recipe.inputs) = 2
    /\ \E n \in Range(recipe.inputs) : files[n] = now
    /\ \E n \in Range(recipe.inputs) : files[n] < now
    /\ \A o \in Range(recipe.outputs) : files[o] = now
    /\ Range(recipe.inputs) \cap Range(recipe.outputs) = {}

\* --------------------------------------- claims on go_rebuild_yourself
\* What every process of the chain has done so far: one that found its
\* binary up to date has run no command, and only such a one is at its real
\* work; one that found it stale has run the rebuild command first and then
\* the binary, with its own arguments argv[1..] in their order, and has
\* exited with the exit status of that child.
BootHistory ==
    /\ rpc = "main" => self.found = "fresh"
    /\ \A k \in DOMAIN boot.procs :
          LET p == boot.procs[k]
          IN  /\ p.found = "fresh" => p.spawned = <<>>
              /\ Len(p.spawned) <= 2
              /\ p.spawned # <<>> =>
                    /\ p.found = "stale"
                    /\ p.spawned[1] = <<"g++", "-o", Binary, Source>>
              /\ Len(p.spawned) = 2 =>
                    /\ p.spawned[2] = <<"./a">> \o Tail(p.argv)
                    /\ boot.procs[k + 1].argv = p.spawned[2]
                    /\ (p.ended = "exit" /\ boot.procs[k + 1].ended = "exit") =>
                          p.status = boot.procs[k + 1].status

RebuiltChecks == rpc = "boot" /\ rpc' # "boot" /\ boot.top > 1 /\ prior = "func"

\* C26 as stated: the binary started after a rebuild finds itself up to date
\* and neither rebuilds nor runs itself again, whatever the modification
\* times of source, header and binary were.
C26_AsStated ==
    [][RebuiltChecks =>
          (rpc' # "func" /\ self'.found # "stale")]_vars

\* C26, amended: the binary started after a rebuild finds itself up to date
\* and goes on to its real work, provided source and header exist and
\* neither is dated later than the rebuilt binary.
C26_OnceUnlessNewer ==
    [][(/\ RebuiltChecks
        /\ \A n \in Range(rebuild_yourself.inputs) :
              files[n] # 0 /\ files[n] <= files[Binary]) =>
          (rpc' = "main" /\ self'.found = "fresh")]_vars

\* C26 witness: a stale process has rebuilt the binary and started it; the
\* source was dated 2 and the binary is written at time 2; the new process
\* has found itself up to date and is at its real work.
C26_Witness ==
    /\ rpc = "main"
    /\ boot.top = 2
    /\ boot.procs[1].found = "stale"
    /\ prior = "func"
    /\ files[Source] = 2
    /\ files[Binary] = 2
    /\ files[Header] = 1

\* ------------------------------------------------ claims on the helpers
\* C27: RebuildConfig::cmd(source, program) returns as many arguments as the
\* template has tokens; where the template has the program placeholder the
\* result has program, where it has the source placeholder the result has
\* source, and everywhere else the token of the template.
C27_CmdSubstitutes ==
    tool.op = "cmd" =>
       /\ Len(tool.cmd) = Len(tool.parts)
       /\ \A k \in DOMAIN tool.parts :
             tool.cmd[k] = CASE tool.parts[k] = "_PROGRAM_" -> tool.program
                             [] tool.parts[k] = "_SOURCE_" -> tool.source
                             [] OTHER -> tool.parts[k]

\* C27 witness: the default template with source b and program a has given
\* g++ -o a b.
C27_Witness ==
    /\ tool.op = "cmd"
    /\ tool.parts = <<"g++", "-o", "_PROGRAM_", "_SOURCE_">>
    /\ tool.source = "b"
    /\ tool.program = "a"
    /\ tool.cmd = <<"g++", "-o", "a", "b">>

\* The directories listed in path_env from character start on (0-based), in
\* their order: what stands between the colons, before the first and after
\* the last.
RECURSIVE Listed(_, _)
Listed(path_env, start) ==
    IF find(path_env, start) = npos
    THEN <<SubSeq(path_env, start + 1, Len(path_env))>>
    ELSE <<SubSeq(path_env, start + 1, find(path_env, start))>>
         \o Listed(path_env, find(path_env, start) + 1)

\* The positions in PATH of the directories that hold bin_name.
Holding == {k \in DOMAIN Listed(tool.path_env, 0) :
               Listed(tool.path_env, 0)[k] \in tool.holds}

\* C28: search_path returns a non-empty path iff a directory listed in PATH
\* holds bin_name, wherever in PATH that directory stands, and the path
\* returned lies in the first such directory.
C28_FoundIffListed ==
    tool.op = "search_path" =>
       /\ tool.ret # <<>> <=> Holding # {}
       /\ \A k \in Holding :
             (\A j \in Holding : k <= j) =>
                tool.ret = bin_path(Listed(tool.path_env, 0)[k])

\* C28 witness: PATH is u:v, only v holds bin_name, and search_path has
\* returned the empty path.
C28_Witness ==
    /\ tool.op = "search_path"
    /\ tool.path_env = <<"u", ":", "v">>
    /\ tool.holds = {<<"v">>}
    /\ tool.ret = <<>>

\* ------------------------------------------ claims on the dispatch cursor
\* run() is under way, or has just returned.
InRun == pc \in {"populate", "await", "returned"}

\* C29: during a run the cursor stays within 0..len(cmds) and counts the
\* commands started so far, so it never goes back and moves by one with each
\* start; the p-th process started is the one of cmds[p - 1], so commands
\* are started in the order they were queued.
C29_CursorCountsStarts ==
    InRun =>
       /\ 0 <= cursor
       /\ cursor <= Len(cmds)
       /\ cursor = Len(children)
       /\ \A p \in DOMAIN children : children[p].cmd = p - 1

\* C29 witness: 3 commands on 2 slots, all three started, the third in the
\* slot of the first, and run() still waits for children.
C29_Witness ==
    /\ pc = "await"
    /\ Len(slots) = 2
    /\ Len(cmds) = 3
    /\ cursor = 3
    /\ slots[1].index = 2
    /\ slots[2].index = 1
    /\ ~slots[1].fut.done

\* C30: during a run no two slots hold the same index; every index below
\* the cursor was started once, and the process of a command that the
\* runner has not yet seen end is held, with its index, by one slot.
C30_OneSlotPerIndex ==
    InRun =>
       /\ \A j, k \in DOMAIN slots :
             (j # k /\ slots[j].index >= 0) => slots[j].index # slots[k].index
       /\ \A k \in 0..(cursor - 1) : Cardinality(StartedFor(k)) = 1
       /\ \A p \in Unobserved :
             Cardinality({k \in DOMAIN slots :
                             /\ slots[k].index = children[p].cmd
                             /\ slots[k].fut.cpid = p}) = 1

\* C30 witness: in the second run of a runner, after clear(), slot 0 holds
\* command 0 of this run while slot 1 still holds index 2 of the run before.
C30_Witness ==
    /\ pc = "populate"
    /\ Len(slots) = 2
    /\ Len(cmds) = 1
    /\ slots[1].index = 0
    /\ ~slots[1].fut.done
    /\ slots[2].index = 2
    /\ slots[2].fut.done

\* ----------------------------------------------- claims on the runner, IV
\* The lesser of two numbers.
Min(a, b) == IF a < b THEN a ELSE b

\* The slot (1-based k) the populate pass visits holds no command, or the
\* poll of the visit finds its handle finished.
ReadySlot(k) ==
    \/ slots[k].index < 0
    \/ slots[k].fut.done
    \/ children[slots[k].fut.cpid].state # "running"

\* One visit of the populate pass that the process survives.
Visit == pc = "populate" /\ pc' = "populate" /\ i' = i + 1

\* The visit starts the command at the cursor in slot k.
Dispatched(k) ==
    /\ cursor' = cursor + 1
    /\ slots'[k].index = cursor
    /\ ~slots'[k].fut.done
    /\ Len(children') = Len(children) + 1
    /\ slots'[k].fut.cpid = Len(children')
    /\ children'[Len(children')].cmd = cursor
    /\ children'[Len(children')].state = "running"

\* C31: the populate pass is work-conserving: while commands remain, no slot
\* it has visited is left empty or with a finished handle, and a pass has
\* started a command at each of its visits until none remained (so the first
\* pass starts min(P, N)); a visit of a ready slot while commands remain
\* starts the next command in that slot in that visit, and a visit of a slot
\* whose handle is not finished changes nothing of the runner.
C31_WorkConserving ==
    /\ [](pc = "populate" =>
            /\ cursor >= Min(i, Len(cmds))
            /\ Len(children) >= Min(i, Len(cmds))
            /\ cursor < Len(cmds) =>
                  \A k \in 1..i : slots[k].index >= 0 /\ ~slots[k].fut.done)
    /\ [][Visit =>
            /\ (ReadySlot(i + 1) /\ cursor < Len(cmds)) => Dispatched(i + 1)
            /\ ~ReadySlot(i + 1) =>
                  UNCHANGED <<slots, cursor, exit_codes, children, did_work>>
         ]_vars

\* C31 witness: on a runner of 2 slots and 3 commands the first pass started
\* 2 commands, and a later pass has found the first slot finished and has
\* started the last command in it while the second slot was still busy.
C31_Witness ==
    /\ pc = "populate"
    /\ process_count = 2
    /\ Len(cmds) = 3
    /\ i = 2
    /\ cursor = 3
    /\ slots[1].index = 2
    /\ slots[2].index = 1
    /\ children[2].state = "running"
    /\ children[1].reaped

\* CmdRunner::print_failed: the elements of exit_codes its loop over cmds
\* reads (1-based).
print_failed_reads == 1..Len(cmds)

\* C32: whenever the caller can evaluate any_failed(), all_succeded() or
\* print_failed() (no run() is in progress), exit_codes is as long as cmds,
\* and print_failed() reads no element that exit_codes does not have.
C32_ParallelLists ==
    AtCaller =>
        /\ Len(exit_codes) = Len(cmds)
        /\ print_failed_reads \subseteq DOMAIN exit_codes

\* C32 witness: after a completed run() of 1 command another command was
\* pushed: print_failed() reads exit_codes[1] of a vector of one element.
C32_Witness ==
    /\ pc = "idle"
    /\ Len(cmds) = 2
    /\ exit_codes = <<0>>
    /\ 2 \in print_failed_reads
    /\ 2 \notin DOMAIN exit_codes

\* --------------------------------------------------- claims on one poll()
\* C33: a call of poll() returns: once in its drain loop or at its waitpid,
\* the caller gets the call's result, whether the child exits, runs on in
\* silence or keeps writing.
C33_PollReturns == (drain.pc \in {"read", "waitpid"}) ~> (drain.pc = "caller")

\* C33 witness: the drain loop of one poll() has taken data MaxReads times,
\* the child is still running and the channel holds data again.
C33_Witness ==
    /\ drain.pc = "read"
    /\ drain.reads = MaxReads
    /\ drain.child = "running"
    /\ drain.pending > 0

\* ------------------------------------------------ claims on the runner, V
\* Every child but child h exits once it runs.
OthersExit(h) ==
    \A p \in 1..MaxCmds \ {h} :
        WF_vars(ChildExit(p, 0))

\* Every command but the one child h runs has been started, its child's exit
\* has been observed and its status is in exit_codes.  The children of a run
\* are numbered in the order of the commands: child h runs cmds[h - 1].
OthersRecorded(h) ==
    /\ InRun
    /\ \A k \in Indexes \ {h - 1} :
          \E p \in StartedFor(k) :
              children[p].reaped /\ exit_codes[k + 1] = children[p].status

C35_SlotPerProcess ==
    /\ (ctor.kind = "default" /\ ctor.n = 0) => process_count = 1
    /\ pc # "start" => Len(slots) = process_count
    /\ (pc = "populate" /\ i < process_count) => i < Len(slots)

\* C35 witness: the default constructor detected no processor and left a
\* runner with process count 1 and no slot; a command was pushed, and run()
\* ended the process at slots[0].
C35_Witness ==
    /\ ctor = [kind |-> "default", n |-> 0]
    /\ process_count = 1
    /\ slots = <<>>
    /\ Len(cmds) = 1
    /\ pc = "aborted"
    /\ oob

\* The handle of the slot a step of run() polls, as that poll leaves it: it
\* is done with the exit code v.
PolledDone(v) ==
    /\ i < Len(slots)
    /\ LET fut == slots[i + 1].fut
       IN  \/ fut.done /\ fut.exit_code = v
           \/ /\ ~fut.done
              /\ children[fut.cpid].state = "exited"
              /\ children[fut.cpid].status = v

\* C36: in a step of run(), an entry of exit_codes that holds a real exit
\* status is not changed, and an entry that is changed gets the exit code
\* of the polled slot's handle, which is done and is that entry's.
C36_CodesWrittenOnce ==
    [][(pc \in {"populate", "await"}) =>
          \A k \in DOMAIN exit_codes :
              /\ exit_codes[k] # -1 => exit_codes'[k] = exit_codes[k]
              /\ exit_codes'[k] # exit_codes[k] =>
                    /\ PolledDone(exit_codes'[k])
                    /\ slots[i + 1].index = k - 1
      ]_vars

\* C36 witness: in a run() of one command, exit_codes[0] holds the status 1
\* although the command's only child is still running: it is the status the
\* slot's handle kept from the run before.
C36_Witness ==
    /\ pc \in {"populate", "await"}
    /\ Len(cmds) = 1
    /\ Len(children) = 1
    /\ children[1].state = "running"
    /\ exit_codes = <<1>>
    /\ ~oob

\* ------------------------------------------- claims on the self-rebuild, II
\* The processes of the chain whose rebuild command exited with a status
\* other than 0.
RebuildFailed == {k \in DOMAIN boot.procs : boot.procs[k].built \notin {-1, 0}}

\* C37: a process whose rebuild command exited with a status other than 0
\* has run no other command (it has not run the binary again), is not in
\* the program's own work, and is ending or has ended with an exit status
\* other than 0.
C37_FailedRebuildFatal ==
    \A k \in RebuildFailed :
        /\ Len(boot.procs[k].spawned) = 1
        /\ k = boot.top => (rpc = "exited" /\ rexit \notin {-1, 0})
        /\ k # boot.top =>
              /\ boot.procs[k].ended = "exit"
              /\ boot.procs[k].status \notin {-1, 0}

\* C37 witness: the rebuild command of a process found stale wrote the
\* binary and still exited with a status other than 0; the process has
\* ended with PanicStatus and has started no other process.
C37_Witness ==
    /\ Len(boot.procs) = 1
    /\ 1 \in RebuildFailed
    /\ boot.procs[1].found = "stale"
    /\ boot.procs[1].ended = "exit"
    /\ boot.procs[1].status = PanicStatus
    /\ files[Binary] >= files[Source]
    /\ files[Source] # 0
    /\ rpc = "done"

\* ------------------------------------------------- claims on the CLI flags
\* The flags registered before the last call of add_flag: that call ended
\* the process and added nothing, or it appended its flag.
Registered ==
    IF cli.exit # -1 THEN cli.flags
    ELSE SubSeq(cli.flags, 1, Len(cli.flags) - 1)

\* Two flags share a name: both have a short name and it is the same, or
\* both have a long name and it is the same.
SameName(f, g) ==
    \/ f.short_name # NUL /\ f.short_name = g.short_name
    \/ f.long_name # "" /\ f.long_name = g.long_name

\* C38: add_flag ends the process iff its flag shares a short or a long name
\* with a flag registered before, and otherwise registers the flag; so two
\* flags with different names are both accepted, also when both have only a
\* long name or both have only a short name.
C38_ClashIffSameName ==
    cli.op = "add_flag" =>
        /\ cli.exit # -1 <=>
              \E k \in DOMAIN Registered : SameName(Registered[k], cli.last)
        /\ cli.exit = -1 => cli.flags = Append(Registered, cli.last)

\* C38 witness: after the flag --aa, add_flag of the flag --bb has ended the
\* process: both have only a long name, and the two names differ.
C38_Witness ==
    /\ cli.op = "add_flag"
    /\ cli.flags = <<CliFlagLong("aa")>>
    /\ cli.last = CliFlagLong("bb")
    /\ cli.exit = PanicStatus

\* ------------------------------------------------ claims on the runner, VI
\* C39: during a run() and at its return the runner holds at most
\* process_count pseudo-terminals open, and none of a child whose exit a
\* poll has observed.
C39_ChannelsBounded ==
    InRun =>
        /\ Cardinality(open_fds(children)) <= process_count
        /\ \A p \in DOMAIN children :
              children[p].reaped => p \notin open_fds(children)

\* C39 witness: a runner of one slot has run 3 commands one after the
\* other; the exits of all 3 have been observed and the 3 pseudo-terminals
\* are still open.
C39_Witness ==
    /\ pc = "returned"
    /\ process_count = 1
    /\ Len(slots) = 1
    /\ \A p \in 1..3 : p \in DOMAIN children /\ children[p].reaped
    /\ Cardinality(open_fds(children)) = 3
====
